---- MODULE Spec2Model ----
(***************************************************************************)
(* A model of the Lisp of cell-gc: the compiler (lisp/src/compile.rs), the *)
(* environment chain and the trampolined evaluator (lisp/src/vm.rs) and    *)
(* the value model they share (lisp/src/value.rs).                         *)
(*                                                                         *)
(* Heap objects that the code aliases are kept in heaps indexed by a       *)
(* reference: `vecs` holds the name vectors (VecRef<GcLeaf<InternedString>>*)
(* of Code.params, Letrec.names and Environment.names), `envs` holds the   *)
(* Environment frames.  The native call stack of the evaluator is the      *)
(* sequence `stack` of activations of eval_compiled, Trampoline::eval,     *)
(* apply and eval_to_tail_call.                                            *)
(***************************************************************************)
EXTENDS Integers, Sequences, FiniteSets, TLC

VARIABLES
    prog,      \* the session being run: setup forms, then calls chosen freely
    forms,     \* the toplevel forms handed to vm::eval so far, in order
    results,   \* the Result of each completed vm::eval, in order
    vecs,      \* heap of name vectors, by reference
    envs,      \* heap of Environment frames, by reference (1 is the default env)
    stack,     \* native call stack, innermost activation last
    ret,       \* the Result being handed from a returning callee to its caller
    cin,       \* the datum handed to the compiler (compiler specification)
    cout,      \* what the compiler returned for it
    objects,   \* the objects of the managed heap that are not destroyed, by address
    handles,   \* the object each handle variable of the mutator refers to, if any
    dropped    \* how often the destructor of each object allocated so far has run

vars == <<prog, forms, results, vecs, envs, stack, ret, cin, cout, objects, handles, dropped>>

(***************************************************************************)
(* Bounds of the model.                                                    *)
(***************************************************************************)
\* iterations of the self-tail-recursive counting loop
MaxIter == 6
\* free calls made after a session's setup forms
MaxCalls == 3
\* formals of the closures of the arity sessions (arguments: one more)
MaxParams == 2
\* elements of the innermost (begin ...) and body lists handed to the compiler
MaxSeq == 2
\* nesting of the pattern of a curried (define ((f a) b) ...)
MaxCurry == 2
\* free calls of vm::eval against the frames a caller holds
MaxApiCalls == 2
\* objects allocated on the managed heap
MaxObjects == 4

(***************************************************************************)
(* value.rs: Value.  Symbols are interned, so that InternedString equality *)
(* (pointer equality) is equality of the text.                             *)
(***************************************************************************)
Nil == [t |-> "Nil"]

Unspecified == [t |-> "Unspecified"]

Bool(b) == [t |-> "Bool", b |-> b]

\* Value::Int (Int is the set of integers here)
VInt(n) == [t |-> "Int", n |-> n]

Symbol(s) == [t |-> "Symbol", s |-> s]

Cons(car, cdr) == [t |-> "Cons", car |-> car, cdr |-> cdr]

\* Lambda(Pair { car: Code(code), cdr: Environment(env) })
Lambda(code, env) == [t |-> "Lambda", code |-> code, env |-> env]

Builtin(f) == [t |-> "Builtin", f |-> f]

\* Result<T, String>
Ok(v) == [ok |-> TRUE, val |-> v]

Err(msg) == [ok |-> FALSE, err |-> msg]

to_bool_c_like(v) == ~(v = Bool(FALSE) \/ v = Nil \/ v = VInt(0))

to_bool(v) == v # Bool(FALSE)

is_nil(v) == v.t = "Nil"

as_pair(v, msg) == IF v.t = "Cons" THEN Ok(<<v.car, v.cdr>>) ELSE Err(msg)

as_symbol(v, msg) == IF v.t = "Symbol" THEN Ok(v.s) ELSE Err(msg)

(***************************************************************************)
(* compile.rs: Expr and the records it points to.  A Code and a Letrec own *)
(* a name vector on the heap: `params` / `names` is its reference (the     *)
(* place in the compiled form where it was allocated) and `*_init` what    *)
(* the compiler put into it.                                               *)
(***************************************************************************)
Con(v) == [k |-> "Con", val |-> v]

Var(s) == [k |-> "Var", name |-> s]

Code(ref, names, rest, body) ==
    [params |-> ref, params_init |-> names, rest |-> rest, body |-> body]

Fun(code) == [k |-> "Fun", code |-> code]

App(subexprs) == [k |-> "App", subexprs |-> subexprs]

\* Expr::Seq (Seq is the set of sequences here)
ESeq(exprs) == [k |-> "Seq", exprs |-> exprs]

If(cond, t_expr, f_expr) ==
    [k |-> "If", cond |-> cond, t_expr |-> t_expr, f_expr |-> f_expr]

Def(name, value) == [k |-> "Def", name |-> name, value |-> value]

Set(name, value) == [k |-> "Set", name |-> name, value |-> value]

Letrec(ref, names, exprs, body) ==
    [k |-> "Letrec", names |-> ref, names_init |-> names,
     exprs |-> exprs, body |-> body]

seq_always_wraps(exprs) ==
    IF Len(exprs) = 0 THEN Con(Unspecified) ELSE ESeq(exprs)

seq(exprs) ==
    IF Len(exprs) = 0 THEN Con(Unspecified)
    ELSE IF Len(exprs) = 1 THEN exprs[Len(exprs)]
    ELSE ESeq(exprs)

letrec(ref, names, exprs, body) ==
    IF names = <<>> THEN body ELSE Letrec(ref, names, exprs, body)

\* `r?` followed by F: the Err that r is, or F of what the Ok holds
Try(r, F(_)) == CHOOSE out \in {IF v.ok THEN F(v.val) ELSE v : v \in {r}} : TRUE

RECURSIVE flatten_body_no_splice(_, _)
flatten_body_no_splice(body_forms, out) ==
    IF body_forms.t = "Nil" THEN Ok(out)
    ELSE IF body_forms.t # "Cons" THEN Err("improper list")
    ELSE flatten_body_no_splice(body_forms.cdr, Append(out, body_forms.car))

RECURSIVE flatten_body(_, _)
flatten_body(body_forms, out) ==
    IF body_forms.t = "Nil" THEN Ok(out)
    ELSE IF body_forms.t # "Cons" THEN Err("improper list")
    ELSE IF /\ body_forms.car.t = "Cons"
            /\ body_forms.car.car.t = "Symbol"
            /\ body_forms.car.car.s = "begin"
    THEN Try(flatten_body(body_forms.car.cdr, out),
             LAMBDA o : flatten_body(body_forms.cdr, o))
    ELSE flatten_body(body_forms.cdr, Append(out, body_forms.car))

is_definition(form) ==
    form.t = "Cons" /\ form.car.t = "Symbol" /\ form.car.s = "define"

RECURSIVE lambda_params_rest_unnamed(_, _)
lambda_params_rest_unnamed(param_list, names) ==
    IF param_list.t = "Cons"
    THEN IF param_list.car.t = "Symbol"
         THEN lambda_params_rest_unnamed(param_list.cdr, Append(names, param_list.car.s))
         ELSE Err("syntax error in lambda arguments")
    ELSE IF param_list.t = "Nil" THEN Ok([names |-> names, rest |-> FALSE])
    ELSE IF param_list.t = "Symbol" THEN Ok([names |-> names, rest |-> TRUE])
    ELSE Err("syntax error in lambda arguments")

\* the formals of a lambda: the names, and whether the last one is a rest name
RECURSIVE lambda_params(_, _)
lambda_params(param_list, names) ==
    IF param_list.t = "Cons"
    THEN IF param_list.car.t = "Symbol"
         THEN lambda_params(param_list.cdr, Append(names, param_list.car.s))
         ELSE Err("syntax error in lambda arguments")
    ELSE IF param_list.t = "Nil" THEN Ok([names |-> names, rest |-> FALSE])
    ELSE IF param_list.t = "Symbol"
         THEN Ok([names |-> Append(names, param_list.s), rest |-> TRUE])
    ELSE Err("syntax error in lambda arguments")

\* `(define (,name ,@formals) ,@rest)  to  `(define ,name (lambda ,formals ,@rest))
desugar_define_drops_body(define_symbol, pattern, rest) ==
    Cons(define_symbol,
         Cons(pattern.car,
              Cons(Cons(Symbol("lambda"),
                        Cons(pattern.cdr,
                             IF rest.t = "Cons" THEN Cons(rest.car, Nil) ELSE rest)),
                   Nil)))

desugar_define(define_symbol, pattern, rest) ==
    LET name == pattern.car
        formals == pattern.cdr
        lambda_cdr == Cons(formals, rest)
        lambda == Cons(Symbol("lambda"), lambda_cdr)
        defn_cddr == Cons(lambda, Nil)
        defn_cdr == Cons(name, defn_cddr)
    IN Cons(define_symbol, defn_cdr)

RECURSIVE compile_expr(_, _)
RECURSIVE compile_list(_, _, _)
RECURSIVE compile_forms(_, _, _)
RECURSIVE compile_defines(_, _, _)
RECURSIVE compile_bindings(_, _, _)
RECURSIVE parse_define(_, _)

\* On success the name to define and the compiled expression to populate it.
\* p is the place of the compiled form: the reference of what it allocates.
parse_define(defn, p) ==
    Try(as_pair(defn, "internal error"), LAMBDA d :
    Try(as_pair(d[2], "(define) with no name"), LAMBDA t :
        IF t[1].t = "Symbol"
        THEN Try(as_pair(t[2], "(define) with no value"), LAMBDA e :
                 IF e[2].t # "Nil" THEN Err("too many arguments in (define)")
                 ELSE Try(compile_expr(e[1], p), LAMBDA value :
                          Ok([name |-> t[1].s, value |-> value])))
        ELSE IF t[1].t = "Cons"
        THEN parse_define(desugar_define(d[1], t[1], t[2]), p)
        ELSE Err("(define) with a non-symbol name")))

\* while i < forms.len() && is_definition(&forms[i]): the names and the
\* expressions of the leading definitions, and the i the loop ends with
compile_defines(body, i, p) ==
    IF i <= Len(body) /\ is_definition(body[i])
    THEN Try(parse_define(body[i], p \o <<i>>), LAMBDA d :
         Try(compile_defines(body, i + 1, p), LAMBDA more :
             Ok([names |-> <<d.name>> \o more.names,
                 exprs |-> <<d.value>> \o more.exprs,
                 i |-> more.i])))
    ELSE Ok([names |-> <<>>, exprs |-> <<>>, i |-> i])

\* forms.drain(i..).map(|form| compile_expr(hs, form)).collect()
compile_forms(body, i, p) ==
    IF i > Len(body) THEN Ok(<<>>)
    ELSE Try(compile_expr(body[i], p \o <<i>>), LAMBDA c :
         Try(compile_forms(body, i + 1, p), LAMBDA more : Ok(<<c>> \o more)))

\* Compile the body of a lambda or letrec*.
compile_body(body_list, p) ==
    Try(flatten_body(body_list, <<>>), LAMBDA body :
    Try(compile_defines(body, 1, p), LAMBDA d :
        IF d.i = Len(body) + 1 THEN Err("expression required")
        ELSE Try(compile_forms(body, d.i, p), LAMBDA body_exprs :
                 Ok(letrec(p, d.names, d.exprs, seq(body_exprs))))))

\* the elements of a list, compiled in order; the list's end is looked at last
compile_list(v, p, i) ==
    IF v.t = "Nil" THEN Ok(<<>>)
    ELSE IF v.t # "Cons" THEN Err("improper list")
    ELSE Try(compile_expr(v.car, p \o <<i>>), LAMBDA c :
         Try(compile_list(v.cdr, p, i + 1), LAMBDA more : Ok(<<c>> \o more)))

\* the bindings of a letrec / letrec*: the names and the compiled expressions
compile_bindings(bindings, p, i) ==
    IF bindings.t = "Nil" THEN Ok([names |-> <<>>, exprs |-> <<>>])
    ELSE IF bindings.t # "Cons" THEN Err("improper list")
    ELSE Try(as_pair(bindings.car, "letrec*: invalid binding"), LAMBDA b :
         Try(as_symbol(b[1], "letrec*: name required"), LAMBDA name :
         Try(as_pair(b[2], "letrec*: value required for binding"), LAMBDA e :
             IF ~is_nil(e[2]) THEN Err("(letrec*): too many arguments")
             ELSE Try(compile_expr(e[1], p \o <<i>>), LAMBDA c :
                  Try(compile_bindings(bindings.cdr, p, i + 1), LAMBDA more :
                      Ok([names |-> <<name>> \o more.names,
                          exprs |-> <<c>> \o more.exprs]))))))

compile_lambda(p_cdr, p) ==
    Try(as_pair(p_cdr, "syntax error in lambda"), LAMBDA a :
    Try(lambda_params(a[1], <<>>), LAMBDA ps :
    Try(compile_body(a[2], p \o <<0>>), LAMBDA body :
        Ok(Fun(Code(p, ps.names, ps.rest, body))))))

compile_quote(p_cdr) ==
    Try(as_pair(p_cdr, "(quote) with no arguments"), LAMBDA a :
        IF ~is_nil(a[2]) THEN Err("too many arguments to (quote)")
        ELSE Ok(Con(a[1])))

compile_if(p_cdr, p) ==
    Try(as_pair(p_cdr, "(if) with no arguments"), LAMBDA a :
    Try(compile_expr(a[1], p \o <<1>>), LAMBDA cond :
    Try(as_pair(a[2], "missing arguments after (if COND)"), LAMBDA b :
    Try(compile_expr(b[1], p \o <<2>>), LAMBDA t_expr :
        IF b[2] = Nil THEN Ok(If(cond, t_expr, Con(Unspecified)))
        ELSE Try(as_pair(b[2], "missing 'else' argument after (if COND X)"), LAMBDA c :
                 IF ~is_nil(c[2]) THEN Err("too many arguments in (if) expression")
                 ELSE Try(compile_expr(c[1], p \o <<3>>), LAMBDA f_expr :
                          Ok(If(cond, t_expr, f_expr))))))))

compile_begin(p_cdr, p) ==
    Try(compile_list(p_cdr, p, 1), LAMBDA exprs : Ok(seq(exprs)))

compile_letrec(p_cdr, p) ==
    Try(as_pair(p_cdr, "letrec*: bindings required"), LAMBDA a :
    Try(compile_bindings(a[1], p, 1), LAMBDA bs :
    Try(compile_body(a[2], p \o <<0>>), LAMBDA body :
        Ok(letrec(p, bs.names, bs.exprs, body)))))

compile_set(p_cdr, p) ==
    Try(as_pair(p_cdr, "(set!) with no name"), LAMBDA a :
    Try(as_symbol(a[1], "(set!) first argument must be a name"), LAMBDA name :
    Try(as_pair(a[2], "(set!) with no value"), LAMBDA e :
        IF ~is_nil(e[2]) THEN Err("(set!): too many arguments")
        ELSE Try(compile_expr(e[1], p \o <<1>>), LAMBDA value :
                 Ok(Set(name, value))))))

compile_app(expr, p) ==
    Try(compile_list(expr, p, 1), LAMBDA subexprs : Ok(App(subexprs)))

compile_expr(expr, p) ==
    IF expr.t = "Symbol" THEN Ok(Var(expr.s))
    ELSE IF expr.t = "Cons"
    THEN IF expr.car.t # "Symbol" THEN compile_app(expr, p)
         ELSE IF expr.car.s = "lambda" THEN compile_lambda(expr.cdr, p)
         ELSE IF expr.car.s = "quote" THEN compile_quote(expr.cdr)
         ELSE IF expr.car.s = "if" THEN compile_if(expr.cdr, p)
         ELSE IF expr.car.s = "begin" THEN compile_begin(expr.cdr, p)
         ELSE IF expr.car.s = "define"
         THEN Err("(define) is allowed only at toplevel or in the body of a function or let-form")
         ELSE IF expr.car.s = "letrec" \/ expr.car.s = "letrec*"
         THEN compile_letrec(expr.cdr, p)
         ELSE IF expr.car.s = "set!" THEN compile_set(expr.cdr, p)
         ELSE compile_app(expr, p)
    ELSE IF expr.t = "Bool" \/ expr.t = "Int" THEN Ok(Con(expr))
    ELSE Err("not an expression")

compile_toplevel(expr, p) ==
    IF is_definition(expr)
    THEN Try(parse_define(expr, p \o <<1>>), LAMBDA d : Ok(Def(d.name, d.value)))
    ELSE compile_expr(expr, p)

(***************************************************************************)
(* vm.rs: Environment.  A frame is { parent, names, values }: `parent` is  *)
(* a frame reference (0 for None), `names` the reference of a name vector  *)
(* in `vecs` (shared with the Code or the Letrec the frame was made for),  *)
(* `values` the frame's own vector of values.  Rust indexes from 0, the    *)
(* sequences here from 1.                                                  *)
(***************************************************************************)
Environment(parent, names, values) ==
    [parent |-> parent, names |-> names, values |-> values]

UndefinedSymbol(name) == [ok |-> FALSE, err |-> "undefined symbol", name |-> name]

\* a panic of the Rust code: it unwinds the whole native stack
Panic(msg) == [ok |-> FALSE, panic |-> msg]

\* for i in 0..names.len(): the first index holding name, 0 if none
RECURSIVE scan_forward(_, _, _)
scan_forward(names, name, i) ==
    IF i > Len(names) THEN 0
    ELSE IF names[i] = name THEN i
    ELSE scan_forward(names, name, i + 1)

scan_oldest_first(names, name) == scan_forward(names, name, 1)

\* for i in (0..names.len()).rev(): the last index holding name, 0 if none
RECURSIVE scan_backward(_, _, _)
scan_backward(names, name, i) ==
    IF i = 0 THEN 0
    ELSE IF names[i] = name THEN i
    ELSE scan_backward(names, name, i - 1)

scan(names, name) == scan_backward(names, name, Len(names))

RECURSIVE lookup(_, _)
lookup(env, name) ==
    IF env = 0 THEN UndefinedSymbol(name)
    ELSE LET i == scan(vecs[envs[env].names], name) IN
         IF i # 0 THEN Ok([env |-> env, i |-> i])
         ELSE lookup(envs[env].parent, name)

get(env, name) ==
    LET l == lookup(env, name) IN
    IF ~l.ok THEN l
    ELSE IF l.val.i > Len(envs[l.val.env].values) THEN Panic("index out of bounds")
    ELSE Ok(envs[l.val.env].values[l.val.i])

\* the frame whose values vector set() writes, given where set() was called
\* and where lookup found the name
set_target_self(self, found) == self

set_target(self, found) == found

\* EnvironmentRef::set: the heap of frames afterwards
set(env, name, value) ==
    LET l == lookup(env, name) IN
    IF ~l.ok THEN l
    ELSE LET target == set_target(env, l.val.env) IN
         IF l.val.i > Len(envs[target].values) THEN Panic("index out of bounds")
         ELSE Ok([envs EXCEPT ![target].values[l.val.i] = value])

\* EnvironmentRef::push: the heaps afterwards
push(env, key, value) ==
    [vecs |-> [vecs EXCEPT ![envs[env].names] = Append(@, key)],
     envs |-> [envs EXCEPT ![env].values = Append(@, value)]]

(***************************************************************************)
(* The builtins registry and the default environment.  Only `-` and `=`    *)
(* on integers are modelled; the prelude is left out.                      *)
(***************************************************************************)
BuiltinNames == <<"-", "=">>

builtin_call(f, args) ==
    IF Len(args) # 2 \/ args[1].t # "Int" \/ args[2].t # "Int"
    THEN Err("number required")
    ELSE IF f = "-" THEN Ok(VInt(args[1].n - args[2].n))
    ELSE Ok(Bool(args[1].n = args[2].n))

\* the reference of the default environment's name vector, and of the frame
RootNames == <<0>>

RootEnv == 1

default_env_vecs == (RootNames :> BuiltinNames)

default_env_envs ==
    <<Environment(0, RootNames,
                  [i \in 1..Len(BuiltinNames) |-> Builtin(BuiltinNames[i])])>>

(***************************************************************************)
(* vm.rs: the evaluator.  A Trampoline is a Value (Trampoline::Value) or   *)
(* a TailCall; an activation is a record of the function, its arguments,   *)
(* its locals and the place `pc` it has reached.  `vals` holds the values  *)
(* an activation of eval_to_tail_call has computed: func and args of an    *)
(* App, cond_value of an If.                                               *)
(***************************************************************************)
TailCall(func, args) == [t |-> "TailCall", func |-> func, args |-> args]

NoRet == [r |-> "none"]

\* the compiler has not been run
NotRun == [fn |-> "none"]

eval_compiled(expr, env) ==
    [fn |-> "eval_compiled", expr |-> expr, env |-> env, pc |-> 0]

Trampoline_eval(self) == [fn |-> "Trampoline::eval", self |-> self, pc |-> 0]

apply(fval, args) ==
    [fn |-> "apply", fval |-> fval, args |-> args, pc |-> 0, env |-> 0]

eval_to_tail_call(expr, env) ==
    [fn |-> "eval_to_tail_call", expr |-> expr, env |-> env, pc |-> 0,
     i |-> 0, vals |-> <<>>, letrec_env |-> 0]

\* the evaluation of the last expression of a Seq, of the selected branch of
\* an If and of the body of a Letrec
tail_eval_by_eval_compiled(expr, env) == eval_compiled(expr, env)

tail_eval(expr, env) == eval_to_tail_call(expr, env)

\* the parent of the frame of a call of the closure fval
call_parent_of_caller(fval) == stack[Len(stack) - 2].env

call_parent(fval) == fval.env

\* the environment a closure made in env captures: the heap of frames
\* afterwards and the reference the closure holds
capture_copy(env) == [envs |-> Append(envs, envs[env]), env |-> Len(envs) + 1]

capture(env) == [envs |-> envs, env |-> env]

\* the environment in which the initializers of a Letrec are evaluated
letrec_init_env_outer(env, letrec_env) == env

letrec_init_env(env, letrec_env) == letrec_env

\* for v in args.drain(n_required_params..).rev() { rest_list = Cons(v, rest_list) }
RECURSIVE rest_fold_rev(_, _, _)
rest_fold_rev(surplus, i, rest_list) ==
    IF i = 0 THEN rest_list
    ELSE rest_fold_rev(surplus, i - 1, Cons(surplus[i], rest_list))

RECURSIVE rest_fold_fwd(_, _, _)
rest_fold_fwd(surplus, i, rest_list) ==
    IF i > Len(surplus) THEN rest_list
    ELSE rest_fold_fwd(surplus, i + 1, Cons(surplus[i], rest_list))

rest_list_not_reversed(surplus) == rest_fold_fwd(surplus, 1, Nil)

rest_list(surplus) == rest_fold_rev(surplus, Len(surplus), Nil)

\* the name vectors a compiled form allocated: <<reference, names>>
RECURSIVE Allocated(_)
Allocated(e) ==
    CASE e.k = "Fun" ->
            {<<e.code.params, e.code.params_init>>} \cup Allocated(e.code.body)
      [] e.k = "App" ->
            UNION {Allocated(e.subexprs[i]) : i \in 1..Len(e.subexprs)}
      [] e.k = "Seq" ->
            UNION {Allocated(e.exprs[i]) : i \in 1..Len(e.exprs)}
      [] e.k = "If" ->
            Allocated(e.cond) \cup Allocated(e.t_expr) \cup Allocated(e.f_expr)
      [] e.k = "Def" \/ e.k = "Set" -> Allocated(e.value)
      [] e.k = "Letrec" ->
            {<<e.names, e.names_init>>} \cup Allocated(e.body)
            \cup UNION {Allocated(e.exprs[i]) : i \in 1..Len(e.exprs)}
      [] OTHER -> {}

\* hs.alloc of those vectors
alloc_vecs(heap, expr) ==
    LET new == Allocated(expr) IN
    [r \in DOMAIN heap \cup {a[1] : a \in new} |->
        IF r \in DOMAIN heap THEN heap[r]
        ELSE (CHOOSE a \in new : a[1] = r)[2]]

top == stack[Len(stack)]

callers == SubSeq(stack, 1, Len(stack) - 1)

Running(fn) == stack # <<>> /\ top.fn = fn

Evaluating(k) == Running("eval_to_tail_call") /\ top.expr.k = k

\* the steps of an activation: it goes on, it calls, it returns
GoOn(frame, r) ==
    /\ stack' = Append(callers, frame)
    /\ ret' = r

Call(frame, callee) ==
    /\ stack' = Append(callers, frame) \o <<callee>>
    /\ ret' = NoRet

Return(r) ==
    /\ stack' = callers
    /\ ret' = r

Unwind(p) ==
    /\ stack' = <<>>
    /\ ret' = p

\* the `?` of a Result that is an Err: the caller returns it; a panic unwinds
Failed(r) == IF "panic" \in DOMAIN r THEN Unwind(r) ELSE Return(r)

HeapsUnchanged == UNCHANGED <<vecs, envs>>

SessionUnchanged == UNCHANGED <<prog, forms, results, cin, cout, objects, handles, dropped>>

\* pub fn eval_compiled
EvalCompiled ==
    /\ Running("eval_compiled")
    /\ IF top.pc = 0
       THEN Call([top EXCEPT !.pc = 1], eval_to_tail_call(top.expr, top.env))
       ELSE IF top.pc = 1
       THEN IF ~ret.ok THEN Failed(ret)
            ELSE Call([top EXCEPT !.pc = 2], Trampoline_eval(ret.val))
       ELSE Return(ret)
    /\ HeapsUnchanged
    /\ SessionUnchanged

\* Trampoline::eval
TrampolineEval ==
    /\ Running("Trampoline::eval")
    /\ IF top.pc = 0
       THEN IF top.self.t = "TailCall"
            THEN Call([top EXCEPT !.pc = 1], apply(top.self.func, top.self.args))
            ELSE Return(Ok(top.self))
       ELSE IF ~ret.ok THEN Failed(ret)
            ELSE GoOn([top EXCEPT !.self = ret.val, !.pc = 0], NoRet)
    /\ HeapsUnchanged
    /\ SessionUnchanged

\* pub fn apply
Apply ==
    /\ Running("apply")
    /\ IF top.pc = 1 THEN Return(ret) /\ HeapsUnchanged
       ELSE IF top.fval.t = "Builtin"
       THEN Return(builtin_call(top.fval.f, top.args)) /\ HeapsUnchanged
       ELSE IF top.fval.t = "Lambda"
       THEN LET code == top.fval.code
                parent == call_parent(top.fval)
                names == code.params
                n_names == Len(vecs[names])
                has_rest == code.rest
                n_required_params == n_names - (IF has_rest THEN 1 ELSE 0)
                args == IF has_rest /\ Len(top.args) >= n_required_params
                        THEN Append(SubSeq(top.args, 1, n_required_params),
                                    rest_list(SubSeq(top.args, n_required_params + 1,
                                                     Len(top.args))))
                        ELSE top.args
                env == Len(envs) + 1
            IN
            IF n_required_params < 0
            THEN Unwind(Panic("attempt to subtract with overflow")) /\ HeapsUnchanged
            ELSE IF Len(top.args) < n_required_params
            THEN Return(Err("apply: not enough arguments")) /\ HeapsUnchanged
            ELSE IF ~has_rest /\ Len(top.args) > n_required_params
            THEN Return(Err("apply: too many arguments")) /\ HeapsUnchanged
            ELSE IF n_names # Len(args)
            THEN Unwind(Panic("assertion failed")) /\ HeapsUnchanged
            ELSE /\ envs' = Append(envs, Environment(parent, names, args))
                 /\ UNCHANGED vecs
                 /\ Call([top EXCEPT !.pc = 1, !.env = env],
                         eval_to_tail_call(code.body, env))
       ELSE Return(Err("apply: not a function")) /\ HeapsUnchanged
    /\ SessionUnchanged

\* Expr::Con(k)
EvalCon ==
    /\ Evaluating("Con")
    /\ Return(Ok(top.expr.val))
    /\ HeapsUnchanged
    /\ SessionUnchanged

\* Expr::Var(s)
EvalVar ==
    /\ Evaluating("Var")
    /\ LET v == get(top.env, top.expr.name) IN
       IF v.ok THEN Return(v) ELSE Failed(v)
    /\ HeapsUnchanged
    /\ SessionUnchanged

\* Expr::Fun(code)
EvalFun ==
    /\ Evaluating("Fun")
    /\ LET c == capture(top.env) IN
       /\ envs' = c.envs
       /\ Return(Ok(Lambda(top.expr.code, c.env)))
    /\ UNCHANGED vecs
    /\ SessionUnchanged

\* Expr::App(subexprs)
EvalApp ==
    /\ Evaluating("App")
    /\ IF top.pc = 0
       THEN IF top.i < Len(top.expr.subexprs)
            THEN Call([top EXCEPT !.pc = 1],
                      eval_compiled(top.expr.subexprs[top.i + 1], top.env))
            ELSE Return(Ok(TailCall(Head(top.vals), Tail(top.vals))))
       ELSE IF ~ret.ok THEN Failed(ret)
            ELSE GoOn([top EXCEPT !.pc = 0, !.i = @ + 1,
                                  !.vals = Append(@, ret.val)], NoRet)
    /\ HeapsUnchanged
    /\ SessionUnchanged

\* Expr::Seq(exprs)
EvalSeq ==
    /\ Evaluating("Seq")
    /\ LET len == Len(top.expr.exprs) IN
       IF top.pc = 0
       THEN IF len = 0 THEN Return(Ok(Nil))
            ELSE IF top.i < len - 1
            THEN Call([top EXCEPT !.pc = 1],
                      eval_compiled(top.expr.exprs[top.i + 1], top.env))
            ELSE Call([top EXCEPT !.pc = 2], tail_eval(top.expr.exprs[len], top.env))
       ELSE IF top.pc = 1
       THEN IF ~ret.ok THEN Failed(ret)
            ELSE GoOn([top EXCEPT !.pc = 0, !.i = @ + 1], NoRet)
       ELSE Return(ret)
    /\ HeapsUnchanged
    /\ SessionUnchanged

\* Expr::If(if_parts)
EvalIf ==
    /\ Evaluating("If")
    /\ IF top.pc = 0
       THEN Call([top EXCEPT !.pc = 1], eval_compiled(top.expr.cond, top.env))
       ELSE IF top.pc = 1
       THEN IF ~ret.ok THEN Failed(ret)
            ELSE LET cond_value == ret.val
                     selected_expr == IF to_bool(cond_value)
                                      THEN top.expr.t_expr
                                      ELSE top.expr.f_expr
                 IN Call([top EXCEPT !.pc = 2, !.vals = <<cond_value>>],
                         tail_eval(selected_expr, top.env))
       ELSE Return(ret)
    /\ HeapsUnchanged
    /\ SessionUnchanged

\* Expr::Letrec(letrec)
EvalLetrec ==
    /\ Evaluating("Letrec")
    /\ IF top.pc = 0
       THEN LET names == top.expr.names
                values == [i \in 1..Len(vecs[names]) |-> Nil]
            IN /\ envs' = Append(envs, Environment(top.env, names, values))
               /\ GoOn([top EXCEPT !.pc = 1, !.letrec_env = Len(envs) + 1], NoRet)
       ELSE IF top.pc = 1
       THEN /\ IF top.i < Len(top.expr.exprs)
               THEN Call([top EXCEPT !.pc = 2],
                         eval_compiled(top.expr.exprs[top.i + 1],
                                       letrec_init_env(top.env, top.letrec_env)))
               ELSE Call([top EXCEPT !.pc = 3],
                         tail_eval(top.expr.body, top.letrec_env))
            /\ UNCHANGED envs
       ELSE IF top.pc = 2
       THEN IF ~ret.ok THEN Failed(ret) /\ UNCHANGED envs
            ELSE IF top.i + 1 > Len(envs[top.letrec_env].values)
            THEN Unwind(Panic("index out of bounds")) /\ UNCHANGED envs
            ELSE /\ envs' = [envs EXCEPT ![top.letrec_env].values[top.i + 1] = ret.val]
                 /\ GoOn([top EXCEPT !.pc = 1, !.i = @ + 1], NoRet)
       ELSE Return(ret) /\ UNCHANGED envs
    /\ UNCHANGED vecs
    /\ SessionUnchanged

\* Expr::Def(def)
EvalDef ==
    /\ Evaluating("Def")
    /\ IF top.pc = 0
       THEN /\ Call([top EXCEPT !.pc = 1], eval_compiled(top.expr.value, top.env))
            /\ HeapsUnchanged
       ELSE IF ~ret.ok THEN Failed(ret) /\ HeapsUnchanged
       ELSE LET h == push(top.env, top.expr.name, ret.val) IN
            /\ vecs' = h.vecs
            /\ envs' = h.envs
            /\ Return(Ok(Nil))
    /\ SessionUnchanged

\* Expr::Set(def)
EvalSet ==
    /\ Evaluating("Set")
    /\ IF top.pc = 0
       THEN /\ Call([top EXCEPT !.pc = 1], eval_compiled(top.expr.value, top.env))
            /\ UNCHANGED envs
       ELSE IF ~ret.ok THEN Failed(ret) /\ UNCHANGED envs
       ELSE LET s == set(top.env, top.expr.name, ret.val) IN
            IF s.ok THEN envs' = s.val /\ Return(Ok(Nil))
            ELSE Failed(s) /\ UNCHANGED envs
    /\ UNCHANGED vecs
    /\ SessionUnchanged

(***************************************************************************)
(* The managed heap (crate cell_gc) as its users see it: hs.alloc hands    *)
(* back a handle, a handle keeps its object and all that is reachable from *)
(* it alive, hs.force_gc() destroys what is not reachable from a handle.   *)
(* The objects are those of tests/drop.rs.                                 *)
(***************************************************************************)
\* enum SomethingWithLifetime
Another(ref) == [tag |-> "Another", ref |-> ref]

Nothing == [tag |-> "Nothing"]

\* cell_gc::with_heap: an empty heap; the handle variables of the mutator, r
\* and s, hold no handle
GcInit ==
    /\ objects = [i \in {} |-> Nothing]
    /\ handles = [h \in {"r", "s"} |-> 0]
    /\ dropped = <<>>

(***************************************************************************)
(* Data as the reader hands it over: lists are chains of pairs.            *)
(***************************************************************************)
\* (e1 e2 ... . tail)
RECURSIVE DotList(_, _)
DotList(items, tail) ==
    IF items = <<>> THEN tail ELSE Cons(Head(items), DotList(Tail(items), tail))

\* (e1 e2 ...)
List(items) == DotList(items, Nil)

\* the sequences over S of at most n elements
RECURSIVE SeqsUpTo(_, _)
SeqsUpTo(S, n) ==
    IF n = 0 THEN {<<>>}
    ELSE LET shorter == SeqsUpTo(S, n - 1) IN
         shorter \cup {Append(s, x) : s \in shorter, x \in S}

(***************************************************************************)
(* The forms of the language, as data.                                     *)
(***************************************************************************)
Quote(datum) == List(<<Symbol("quote"), datum>>)

LambdaForm(formals, body) == Cons(Symbol("lambda"), Cons(formals, List(body)))

DefineForm(name, e) == List(<<Symbol("define"), Symbol(name), e>>)

SetForm(name, e) == List(<<Symbol("set!"), Symbol(name), e>>)

IfForm(c, t, f) == List(<<Symbol("if"), c, t, f>>)

BeginForm(es) == Cons(Symbol("begin"), List(es))

CallForm(f, args) == List(<<f>> \o args)

LetrecForm(bindings, body) ==
    Cons(Symbol("letrec*"),
         Cons(List([i \in 1..Len(bindings) |->
                       List(<<Symbol(bindings[i][1]), bindings[i][2]>>)]),
              List(body)))

(***************************************************************************)
(* Sessions: what a driver of vm::eval (the REPL, a test) has the          *)
(* evaluator do on the default environment.  A session is a sequence of    *)
(* setup forms followed by at most MaxCalls forms, each chosen freely      *)
(* among the session's calls.                                              *)
(***************************************************************************)
Session(name, arg, setup, calls) ==
    [name |-> name, arg |-> arg, setup |-> setup, calls |-> calls]

\* a counting loop bound by letrec*, whose recursive call is a tail call
LoopForm(n) ==
    LetrecForm(
        <<<<"loop",
            LambdaForm(List(<<Symbol("n")>>),
                <<IfForm(CallForm(Symbol("="), <<Symbol("n"), VInt(0)>>),
                         Quote(Symbol("done")),
                         CallForm(Symbol("loop"),
                             <<CallForm(Symbol("-"), <<Symbol("n"), VInt(1)>>)>>))>>)>>>>,
        <<CallForm(Symbol("loop"), <<VInt(n)>>)>>)

\* the same loop with the recursive call as an argument: not a tail call
CountForm(n) ==
    LetrecForm(
        <<<<"count",
            LambdaForm(List(<<Symbol("n")>>),
                <<IfForm(CallForm(Symbol("="), <<Symbol("n"), VInt(0)>>),
                         VInt(0),
                         CallForm(Symbol("-"),
                             <<VInt(0),
                               CallForm(Symbol("count"),
                                   <<CallForm(Symbol("-"), <<Symbol("n"), VInt(1)>>)>>)>>))>>)>>>>,
        <<CallForm(Symbol("count"), <<VInt(n)>>)>>)

LoopSessions ==
    {Session("loop", <<n>>, <<LoopForm(n)>>, {}) : n \in 0..MaxIter}
    \cup {Session("count", <<n>>, <<CountForm(n)>>, {}) : n \in 0..MaxIter}

\* x is bound at toplevel and again by g, which calls f in its own frame;
\* h is a closure made by a call of mk that has returned
LexicalSession ==
    Session("lexical", <<>>,
        <<DefineForm("x", VInt(1)),
          DefineForm("f", LambdaForm(Nil, <<Symbol("x")>>)),
          DefineForm("g", LambdaForm(List(<<Symbol("x")>>),
              <<CallForm(LambdaForm(List(<<Symbol("r")>>), <<Symbol("r")>>),
                         <<CallForm(Symbol("f"), <<>>)>>)>>)),
          DefineForm("mk", LambdaForm(List(<<Symbol("a")>>),
              <<LambdaForm(Nil, <<Symbol("a")>>)>>)),
          DefineForm("h", CallForm(Symbol("mk"), <<VInt(7)>>))>>,
        {CallForm(Symbol("g"), <<VInt(2)>>),
         CallForm(Symbol("h"), <<>>),
         CallForm(Symbol("f"), <<>>)})

\* get and put are closures made in the same call frame, the one binding v
SharedSession ==
    Session("shared", <<>>,
        <<DefineForm("get", VInt(0)),
          DefineForm("put", VInt(0)),
          CallForm(LambdaForm(List(<<Symbol("v")>>),
                      <<SetForm("get", LambdaForm(Nil, <<Symbol("v")>>)),
                        SetForm("put", LambdaForm(List(<<Symbol("x")>>),
                                           <<SetForm("v", Symbol("x"))>>))>>),
                   <<VInt(0)>>)>>,
        {CallForm(Symbol("get"), <<>>),
         CallForm(Symbol("put"), <<VInt(1)>>),
         CallForm(Symbol("put"), <<VInt(2)>>)})

\* (letrec* ((a (lambda () (b))) (b (lambda () 42))) (a))
LetrecForward ==
    LetrecForm(<<<<"a", LambdaForm(Nil, <<CallForm(Symbol("b"), <<>>)>>)>>,
                 <<"b", LambdaForm(Nil, <<VInt(42)>>)>>>>,
               <<CallForm(Symbol("a"), <<>>)>>)

\* (letrec* ((a 1) (b a) (c b)) c): each initializer reads the one before
LetrecInOrder ==
    LetrecForm(<<<<"a", VInt(1)>>, <<"b", Symbol("a")>>, <<"c", Symbol("b")>>>>,
               <<Symbol("c")>>)

\* (letrec* ((a b) (b 1)) a): an initializer reads a name not yet assigned
LetrecEarly ==
    LetrecForm(<<<<"a", Symbol("b")>>, <<"b", VInt(1)>>>>, <<Symbol("a")>>)

LetrecForms == <<LetrecForward, LetrecInOrder, LetrecEarly>>

LetrecSessions ==
    {Session("letrec", <<i>>, <<LetrecForms[i]>>, {}) : i \in 1..Len(LetrecForms)}

\* ((lambda formals which) 1 2 ... k): np formals p1 p2 ..., the last one a
\* rest name when rest = 1; the body is the formal number which (or 'none)
ParamName(i) == <<"p1", "p2", "p3", "p4", "p5">>[i]

ArityFormals(np, rest) ==
    IF rest = 1
    THEN DotList([i \in 1..(np - 1) |-> Symbol(ParamName(i))], Symbol(ParamName(np)))
    ELSE List([i \in 1..np |-> Symbol(ParamName(i))])

ArityForm(np, rest, k, which) ==
    CallForm(LambdaForm(ArityFormals(np, rest),
                 <<IF which = 0 THEN Quote(Symbol("none")) ELSE Symbol(ParamName(which))>>),
             [i \in 1..k |-> VInt(i)])

AritySessions ==
    {Session("arity", <<np, rest, k, which>>, <<ArityForm(np, rest, k, which)>>, {}) :
        <<np, rest, k, which>> \in
            {a \in (0..MaxParams) \X (0..1) \X (0..(MaxParams + 2)) \X (0..MaxParams) :
                /\ a[2] = 1 => a[1] >= 1
                /\ a[4] <= a[1]
                /\ a[4] = 0 => a[1] = 0}}

\* the values an `if` is decided on, as expressions
IfConds ==
    <<Bool(FALSE), Bool(TRUE), VInt(0), Quote(Nil), BeginForm(<<>>),
      Quote(Symbol("s")), LambdaForm(Nil, <<VInt(1)>>), VInt(1)>>

\* n counts the evaluations of the condition down from 0; t and e record
\* the evaluation of a branch
IfSessionForm(c) ==
    IfForm(BeginForm(<<SetForm("n", CallForm(Symbol("-"), <<Symbol("n"), VInt(1)>>)), c>>),
           BeginForm(<<SetForm("t", VInt(1)), Quote(Symbol("then"))>>),
           BeginForm(<<SetForm("e", VInt(1)), Quote(Symbol("else"))>>))

IfSessions ==
    {Session("if", <<i>>,
        <<DefineForm("n", VInt(0)), DefineForm("t", VInt(0)), DefineForm("e", VInt(0)),
          IfSessionForm(IfConds[i])>>, {}) : i \in 1..Len(IfConds)}

\* definitions, assignments and references at toplevel, in call frames and
\* in the frame of a body's definitions
EnvSession ==
    Session("env", <<>>,
        <<DefineForm("x", VInt(1))>>,
        {DefineForm("x", VInt(2)),
         DefineForm("y", VInt(3)),
         SetForm("x", VInt(4)),
         SetForm("z", VInt(5)),
         Symbol("x"),
         CallForm(LambdaForm(List(<<Symbol("x")>>),
                      <<SetForm("x", VInt(6)), Symbol("x")>>), <<VInt(7)>>),
         CallForm(LambdaForm(Nil,
                      <<DefineForm("x", VInt(8)), DefineForm("x", VInt(9)),
                        SetForm("x", CallForm(Symbol("-"), <<Symbol("x"), VInt(1)>>)),
                        Symbol("x")>>), <<>>),
         CallForm(LambdaForm(List(<<Symbol("y")>>),
                      <<SetForm("x", Symbol("y")), Symbol("x")>>), <<VInt(10)>>)})

Sessions ==
    LoopSessions \cup {LexicalSession, SharedSession, EnvSession}
    \cup LetrecSessions \cup AritySessions \cup IfSessions

Init ==
    /\ prog \in Sessions
    /\ forms = <<>>
    /\ results = <<>>
    /\ vecs = default_env_vecs
    /\ envs = default_env_envs
    /\ stack = <<>>
    /\ ret = NoRet
    /\ cin = Nil
    /\ cout = NotRun
    /\ GcInit

Panicked == results # <<>> /\ "panic" \in DOMAIN results[Len(results)]

\* the forms the driver may hand to vm::eval next
NextForms ==
    IF Len(forms) < Len(prog.setup) THEN {prog.setup[Len(forms) + 1]}
    ELSE IF Len(forms) < Len(prog.setup) + MaxCalls THEN prog.calls
    ELSE {}

\* pub fn eval, up to its call of eval_compiled
Eval ==
    /\ stack = <<>>
    /\ ret = NoRet
    /\ ~Panicked
    /\ \E form \in NextForms :
          LET expr == compile_toplevel(form, <<Len(forms) + 1>>) IN
          /\ forms' = Append(forms, form)
          /\ IF expr.ok
             THEN /\ vecs' = alloc_vecs(vecs, expr.val)
                  /\ stack' = <<eval_compiled(expr.val, RootEnv)>>
                  /\ UNCHANGED results
             ELSE /\ results' = Append(results, expr)
                  /\ UNCHANGED <<vecs, stack>>
    /\ UNCHANGED <<prog, envs, ret, cin, cout, objects, handles, dropped>>

\* pub fn eval, once eval_compiled is back
EvalReturn ==
    /\ stack = <<>>
    /\ ret # NoRet
    /\ results' = Append(results, ret)
    /\ ret' = NoRet
    /\ UNCHANGED <<prog, forms, vecs, envs, stack, cin, cout, objects, handles, dropped>>

Next ==
    \/ Eval
    \/ EvalReturn
    \/ EvalCompiled
    \/ TrampolineEval
    \/ Apply
    \/ EvalCon
    \/ EvalVar
    \/ EvalFun
    \/ EvalApp
    \/ EvalSeq
    \/ EvalIf
    \/ EvalLetrec
    \/ EvalDef
    \/ EvalSet

Spec == Init /\ [][Next]_vars

(***************************************************************************)
(* The compiler as a state machine: a datum comes in, compile or           *)
(* compile_toplevel is applied to it once.                                 *)
(***************************************************************************)
Atoms == {Symbol("x"), VInt(1)}

BodyLists(S) == {List(s) : s \in SeqsUpTo(S, MaxSeq)}

\* the special forms and the application, over the sub-forms S
FormsOver(S) ==
    {Cons(Symbol("begin"), b) : b \in BodyLists(S)}
    \cup {Cons(Symbol("lambda"), Cons(Nil, b)) : b \in BodyLists(S)}
    \cup {List(<<Symbol("if"), Symbol("x"), e>>) : e \in S}
    \cup {List(<<Symbol("if"), e, Symbol("x"), e>>) : e \in S}
    \cup {List(<<Symbol("set!"), Symbol("x"), e>>) : e \in S}
    \cup {List(<<Symbol("define"), Symbol("x"), e>>) : e \in S}
    \cup {List(<<Symbol("letrec*"), List(<<List(<<Symbol("x"), e>>)>>), e>>) : e \in S}
    \cup {List(<<Symbol("f"), e>>) : e \in S}
    \cup {List(<<Symbol("quote"), e>>) : e \in S}

Forms1 == Atoms \cup FormsOver(Atoms)

\* forms nested twice: lists of at most two forms of Forms1 in a begin, in a
\* lambda body and in a letrec* body, and one form of Forms1 elsewhere
Forms2 ==
    {Cons(Symbol("begin"), List(s)) : s \in SeqsUpTo(Forms1, 2)}
    \cup {Cons(Symbol("lambda"), Cons(Symbol("r"), List(s))) : s \in SeqsUpTo(Forms1, 2)}
    \cup {Cons(Symbol("letrec"), Cons(Nil, List(s))) : s \in SeqsUpTo(Forms1, 2)}
    \cup {List(<<Symbol("if"), e, Symbol("x")>>) : e \in Forms1}
    \cup {List(<<Symbol("set!"), Symbol("x"), e>>) : e \in Forms1}
    \cup {List(<<Symbol("define"), List(<<Symbol("f"), Symbol("a")>>), e>>) : e \in Forms1}
    \cup {List(<<e, e>>) : e \in Forms1}

\* the patterns of (define pattern body...): a head, under at most n formals lists
DefineHeads == {Symbol("f"), VInt(5), Nil, Bool(TRUE)}

DefineFormals ==
    {Nil, List(<<Symbol("a")>>), DotList(<<Symbol("a")>>, Symbol("r")),
     Symbol("r"), List(<<VInt(5)>>)}

RECURSIVE DefinePatterns(_)
DefinePatterns(n) ==
    IF n = 0 THEN DefineHeads
    ELSE LET inner == DefinePatterns(n - 1) IN
         inner \cup {Cons(pt, fs) : pt \in inner, fs \in DefineFormals}

DefineBodies ==
    {Nil, VInt(5),
     List(<<Symbol("a")>>),
     List(<<Symbol("a"), Symbol("b")>>),
     List(<<List(<<Symbol("define"), Symbol("y"), VInt(1)>>), Symbol("y")>>),
     List(<<List(<<Symbol("begin")>>)>>),
     List(<<List(<<Symbol("+"), Symbol("x"), VInt(1)>>)>>),
     DotList(<<Symbol("a")>>, VInt(5))}

DefineForms ==
    {Cons(Symbol("define"), Cons(pt, b)) :
        pt \in DefinePatterns(MaxCurry), b \in DefineBodies}
    \cup {List(<<Symbol("define")>>)}

\* the forms of a body: expressions, definitions, and (begin ...) forms to
\* splice, empty, of a definition, of an expression before a definition, nested
BodyItems ==
    {Symbol("x"), VInt(1),
     DefineForm("y", VInt(1)),
     DefineForm("z", Symbol("y")),
     BeginForm(<<>>),
     BeginForm(<<DefineForm("y", VInt(1))>>),
     BeginForm(<<Symbol("x"), DefineForm("y", VInt(1))>>),
     BeginForm(<<BeginForm(<<DefineForm("y", VInt(1)), Symbol("x")>>)>>)}

\* (lambda () body...) and (letrec* () body...), the body of at most
\* MaxSeq + 1 forms
BodyInputs ==
    {LambdaForm(Nil, b) : b \in SeqsUpTo(BodyItems, MaxSeq + 1)}
    \cup {LetrecForm(<<>>, b) : b \in SeqsUpTo(BodyItems, MaxSeq + 1)}

CompileInputs == Forms1 \cup Forms2 \cup DefineForms \cup BodyInputs

\* the place of the form compiled alone
Place == <<1>>

InitCompile ==
    /\ cin \in CompileInputs
    /\ cout = NotRun
    /\ prog = [name |-> "compile"]
    /\ forms = <<>>
    /\ results = <<>>
    /\ vecs = <<>>
    /\ envs = <<>>
    /\ stack = <<>>
    /\ ret = NotRun
    /\ GcInit

CompileToplevel ==
    /\ cout = NotRun
    /\ cout' = [fn |-> "compile_toplevel", r |-> compile_toplevel(cin, Place)]
    /\ UNCHANGED <<prog, forms, results, vecs, envs, stack, ret, cin, objects, handles, dropped>>

CompileExpr ==
    /\ cout = NotRun
    /\ cout' = [fn |-> "compile_expr", r |-> compile_expr(cin, Place)]
    /\ UNCHANGED <<prog, forms, results, vecs, envs, stack, ret, cin, objects, handles, dropped>>

NextCompile == CompileToplevel \/ CompileExpr

SpecCompile == InitCompile /\ [][NextCompile]_vars

(***************************************************************************)
(* Properties of the evaluator (specification Spec).                       *)
(***************************************************************************)
\* the i-th vm::eval of the session has returned
Returned(i) == i <= Len(results)

\* the number of nested eval_compiled / apply activations
NativeDepth ==
    Cardinality({i \in 1..Len(stack) : stack[i].fn \in {"eval_compiled", "apply"}})

\* the value a name of the default environment has now
Toplevel(name) == get(RootEnv, name)

\* C1: proper tail calls.  apply is only ever called by the driver loop
\* Trampoline::eval, and eval_to_tail_call only calls eval_compiled and
\* itself; and in the self-tail-recursive counting loop, run for any number N
\* of iterations, there are never more than 4 nested eval_compiled / apply
\* activations (the toplevel eval_compiled, the apply of loop, the
\* eval_compiled of an argument or the condition and the apply of - or =),
\* and the loop ends with 'done.
C1_ProperTailCalls ==
    /\ \A i \in 1..Len(stack) :
          /\ stack[i].fn = "apply" => i > 1 /\ stack[i - 1].fn = "Trampoline::eval"
          /\ stack[i].fn = "eval_to_tail_call" /\ i < Len(stack) =>
                stack[i + 1].fn \in {"eval_compiled", "eval_to_tail_call"}
    /\ prog.name = "loop" =>
          /\ NativeDepth <= 4
          /\ Returned(1) => results[1] = Ok(Symbol("done"))

\* the loop of MaxIter iterations is at its last call, (loop 0)
C1_Witness ==
    /\ prog.name = "loop"
    /\ prog.arg = <<MaxIter>>
    /\ Running("apply")
    /\ top.fval.t = "Lambda"
    /\ top.args = <<VInt(0)>>
    /\ top.pc = 1

\* C2: lexical scoping.  The frame apply builds for a closure has the
\* closure's environment as its parent; f, made at toplevel where x is 1,
\* reads 1 when g calls it from a frame binding x to 2; h, made by a call of
\* mk that has returned, still reads that call's parameter.
C2_LexicalScoping ==
    /\ \A i \in 1..Len(stack) :
          stack[i].fn = "apply" /\ stack[i].pc = 1 =>
             /\ stack[i].fval.t = "Lambda"
             /\ envs[stack[i].env].parent = stack[i].fval.env
    /\ prog.name = "lexical" =>
          \A j \in 1..Len(results) :
             /\ forms[j] = CallForm(Symbol("g"), <<VInt(2)>>) => results[j] = Ok(VInt(1))
             /\ forms[j] = CallForm(Symbol("f"), <<>>) => results[j] = Ok(VInt(1))
             /\ forms[j] = CallForm(Symbol("h"), <<>>) => results[j] = Ok(VInt(7))

\* (g 2) and then (h) have returned
C2_Witness ==
    /\ prog.name = "lexical"
    /\ Returned(7)
    /\ forms[6] = CallForm(Symbol("g"), <<VInt(2)>>)
    /\ forms[7] = CallForm(Symbol("h"), <<>>)
    /\ results[6].ok

\* the argument of the last (put v) among the first j forms, 0 if none
RECURSIVE LastPut(_)
LastPut(j) ==
    IF j = 0 THEN VInt(0)
    ELSE IF forms[j] = CallForm(Symbol("put"), <<VInt(1)>>) THEN VInt(1)
    ELSE IF forms[j] = CallForm(Symbol("put"), <<VInt(2)>>) THEN VInt(2)
    ELSE LastPut(j - 1)

\* C3: shared-frame aliasing.  get and put were made in the same frame and
\* hold the same frame; whatever calls of the two are made in whatever
\* order, every (get) returns what the last (put v) before it stored, and
\* the 0 the frame was made with if there was none.
C3_SharedFrame ==
    prog.name = "shared" =>
       /\ Returned(3) /\ results[3].ok =>
             /\ Toplevel("get").val.t = "Lambda"
             /\ Toplevel("put").val.t = "Lambda"
             /\ Toplevel("get").val.env = Toplevel("put").val.env
       /\ \A j \in 1..Len(results) :
             forms[j] = CallForm(Symbol("get"), <<>>) => results[j] = Ok(LastPut(j))

\* a (get) has returned after a (put v)
C3_Witness ==
    /\ prog.name = "shared"
    /\ \E j \in 5..Len(results) :
          /\ forms[j] = CallForm(Symbol("get"), <<>>)
          /\ forms[j - 1] = CallForm(Symbol("put"), <<VInt(2)>>)
          /\ results[j - 1] = Ok(Nil)

\* C4: letrec*.  The frame of a Letrec is a child of the current frame, on
\* the names of the Letrec, with as many slots as names; a slot holds nil
\* until its initializer has returned; initializer i+1 is being evaluated
\* against that frame once i initializers are stored, and so is the body
\* once all are.  (letrec* ((a (lambda () (b))) (b (lambda () 42))) (a)) is
\* 42, (letrec* ((a 1) (b a) (c b)) c) is 1 and (letrec* ((a b) (b 1)) a) is
\* the placeholder nil.
C4_LetrecStar ==
    /\ \A i \in 1..Len(stack) :
          stack[i].fn = "eval_to_tail_call" /\ stack[i].expr.k = "Letrec"
          /\ stack[i].pc >= 1 =>
             /\ envs[stack[i].letrec_env].parent = stack[i].env
             /\ envs[stack[i].letrec_env].names = stack[i].expr.names
             /\ Len(envs[stack[i].letrec_env].values) = Len(stack[i].expr.exprs)
             /\ stack[i].i <= Len(stack[i].expr.exprs)
             /\ stack[i].pc \in {1, 2} =>
                   \A j \in (stack[i].i + 1)..Len(stack[i].expr.exprs) :
                      envs[stack[i].letrec_env].values[j] = Nil
             /\ stack[i].pc = 2 /\ i < Len(stack) =>
                   /\ stack[i + 1].expr = stack[i].expr.exprs[stack[i].i + 1]
                   /\ stack[i + 1].env = stack[i].letrec_env
             /\ stack[i].pc = 3 =>
                   /\ stack[i].i = Len(stack[i].expr.exprs)
                   /\ i < Len(stack) =>
                         /\ stack[i + 1].expr = stack[i].expr.body
                         /\ stack[i + 1].env = stack[i].letrec_env
             /\ prog.name = "letrec" /\ prog.arg = <<2>> =>
                   \A j \in 1..stack[i].i :
                      envs[stack[i].letrec_env].values[j] = VInt(1)
    /\ prog.name = "letrec" /\ Returned(1) =>
          results[1] = <<Ok(VInt(42)), Ok(VInt(1)), Ok(Nil)>>[prog.arg[1]]

\* the forward reference has been evaluated
C4_Witness ==
    /\ prog.name = "letrec"
    /\ prog.arg = <<1>>
    /\ Returned(1)
    /\ forms[1] = LetrecForward

\* what ((lambda formals which) 1 ... k) is to return: np formals, the last
\* one a rest name when rest = 1
ArityExpected(np, rest, k, which) ==
    IF k < np - rest THEN Err("apply: not enough arguments")
    ELSE IF rest = 0 /\ k > np THEN Err("apply: too many arguments")
    ELSE IF which = 0 THEN Ok(Symbol("none"))
    ELSE IF which <= np - rest THEN Ok(VInt(which))
    ELSE Ok(List([i \in 1..(k - (np - rest)) |-> VInt(np - rest + i)]))

\* C5: arity.  A call of a closure of P formals, the last one a rest name
\* or not, with k arguments: fewer than required is "apply: not enough
\* arguments"; more, without a rest name, is "apply: too many arguments";
\* otherwise the required formals hold the first arguments and the rest
\* name the list of the others, in order.  The frame has a slot for each name.
C5_Arity ==
    /\ prog.name = "arity" /\ Returned(1) =>
          results[1] = ArityExpected(prog.arg[1], prog.arg[2], prog.arg[3], prog.arg[4])
    /\ \A i \in 1..Len(stack) :
          stack[i].fn = "apply" /\ stack[i].pc = 1 =>
             Len(envs[stack[i].env].values) = Len(vecs[envs[stack[i].env].names])

\* one required formal and a rest name, three arguments: the rest is (2 3)
C5_Witness ==
    /\ prog.name = "arity"
    /\ prog.arg = <<2, 1, 3, 2>>
    /\ Returned(1)
    /\ results[1] = Ok(Cons(VInt(2), Cons(VInt(3), Nil)))

\* the toplevel variable name holds v now
Holds(name, v) == Toplevel(name) = Ok(v)

\* C8: truthiness of if.  The branch an If goes on with is f_expr when the
\* value of its condition is #f and t_expr for any other value, evaluated
\* in the environment of the If.  In (if (begin (set! n (- n 1)) c)
\* (begin (set! t 1) 'then) (begin (set! e 1) 'else)) the condition is
\* evaluated once (n is -1 at the end, never less), at most one of t and e is
\* ever set, and, of the conditions #f, #t, 0, '(), (begin), 's, a closure
\* and 1, only #f ends with 'else and e set; the others end with 'then and t
\* set.
C8_IfTruthiness ==
    /\ \A i \in 1..(Len(stack) - 1) :
          stack[i].fn = "eval_to_tail_call" /\ stack[i].expr.k = "If"
          /\ stack[i].pc = 2 =>
             /\ stack[i + 1].env = stack[i].env
             /\ stack[i + 1].expr = IF stack[i].vals = <<Bool(FALSE)>>
                                    THEN stack[i].expr.f_expr
                                    ELSE stack[i].expr.t_expr
    /\ prog.name = "if" /\ Returned(3) =>
          /\ Toplevel("n") \in {Ok(VInt(0)), Ok(VInt(-1))}
          /\ ~(Holds("t", VInt(1)) /\ Holds("e", VInt(1)))
    /\ prog.name = "if" /\ Returned(4) =>
          /\ Holds("n", VInt(-1))
          /\ IF IfConds[prog.arg[1]] = Bool(FALSE)
             THEN /\ results[4] = Ok(Symbol("else"))
                  /\ Holds("e", VInt(1))
                  /\ Holds("t", VInt(0))
             ELSE /\ results[4] = Ok(Symbol("then"))
                  /\ Holds("t", VInt(1))
                  /\ Holds("e", VInt(0))

\* the if on the integer 0 has taken its then-branch
C8_Witness ==
    /\ prog.name = "if"
    /\ IfConds[prog.arg[1]] = VInt(0)
    /\ Returned(4)
    /\ results[4] = Ok(Symbol("then"))

\* the frames of the parent chain of env, env first
RECURSIVE Chain(_)
Chain(env) == IF env = 0 THEN <<>> ELSE <<env>> \o Chain(envs[env].parent)

Frames(chain) == {chain[k] : k \in 1..Len(chain)}

\* the indices of name in the name vector of the frame e
IndicesOf(e, name) ==
    {i \in 1..Len(vecs[envs[e].names]) : vecs[envs[e].names][i] = name}

Greatest(S) == CHOOSE m \in S : \A n \in S : n <= m

Least(S) == CHOOSE m \in S : \A n \in S : m <= n

\* the nearest frame of the chain of env that binds name and the highest
\* index of name in it, or the error
NearestBinding(env, name) ==
    LET chain == Chain(env)
        binders == {k \in 1..Len(chain) : IndicesOf(chain[k], name) # {}}
    IN IF binders = {} THEN UndefinedSymbol(name)
       ELSE Ok([env |-> chain[Least(binders)],
                i |-> Greatest(IndicesOf(chain[Least(binders)], name))])

\* the names bound anywhere, and two bound nowhere
Names == UNION {{v[i] : i \in 1..Len(v)} : v \in {vecs[r] : r \in DOMAIN vecs}}
         \cup {"z", "unbound"}

\* C9: lookup order and shadowing.  Whatever has been pushed and set, in
\* every frame and for every name lookup finds the nearest frame of the
\* parent chain that binds the name and the highest index of the name in
\* it, and fails with "undefined symbol" exactly when no frame of the chain
\* binds it.  A reference to x right after a second (define x ...) at
\* toplevel is the second value, and a body with two definitions of x
\* reads the second.
C9_LookupOrder ==
    /\ \A env \in 1..Len(envs) : \A name \in Names :
          \A found \in {lookup(env, name)} :
             /\ found = NearestBinding(env, name)
             /\ ~found.ok <=>
                   \A e \in Frames(Chain(env)) : IndicesOf(e, name) = {}
    /\ prog.name = "env" =>
          \A j \in 2..Len(results) :
             /\ forms[j] = Symbol("x") /\ forms[j - 1] = DefineForm("x", VInt(2)) =>
                   results[j] = Ok(VInt(2))
             /\ forms[j].t = "Cons" /\ forms[j].car.t = "Cons"
                /\ forms[j].car.cdr.car = Nil =>
                   results[j] = Ok(VInt(8))

\* x has been defined twice at toplevel and then referred to
C9_Witness ==
    /\ prog.name = "env"
    /\ Returned(3)
    /\ forms[2] = DefineForm("x", VInt(2))
    /\ forms[3] = Symbol("x")
    /\ Cardinality(IndicesOf(RootEnv, "x")) = 2

\* an activation of Expr::Set has the value to assign
SetStep == Evaluating("Set") /\ top.pc = 1 /\ ret.ok

\* C10: assignment.  When (set! name expr) has the value of expr: if name is
\* bound in the chain, the slot lookup finds (nearest frame, highest index)
\* becomes that value, every other slot of every frame stays as it is, no
\* frame and no name vector changes its length, and the result is Ok; if it
\* is bound nowhere, the result is the undefined-symbol error and nothing
\* changes.
C10_SetOverwritesOneSlot ==
    [][SetStep =>
          LET b == NearestBinding(top.env, top.expr.name) IN
          /\ vecs' = vecs
          /\ Len(envs') = Len(envs)
          /\ \A e \in 1..Len(envs) :
                /\ envs'[e].parent = envs[e].parent
                /\ envs'[e].names = envs[e].names
                /\ Len(envs'[e].values) = Len(envs[e].values)
                /\ \A i \in 1..Len(envs[e].values) :
                      envs'[e].values[i] =
                         IF b.ok /\ e = b.val.env /\ i = b.val.i
                         THEN ret.val
                         ELSE envs[e].values[i]
          /\ ret' = IF b.ok THEN Ok(Nil) ELSE UndefinedSymbol(top.expr.name)
          /\ ~b.ok => envs' = envs]_vars

\* a closure called with 10 has assigned the toplevel x, which it does not
\* bind itself, and an assignment to the unbound z has failed
C10_Witness ==
    /\ prog.name = "env"
    /\ Returned(3)
    /\ forms[2].t = "Cons" /\ forms[2].car.t = "Cons"
    /\ results[2] = Ok(VInt(10))
    /\ forms[3] = SetForm("z", VInt(5))
    /\ results[3] = UndefinedSymbol("z")
    /\ Holds("x", VInt(10))
    /\ Len(envs[RootEnv].values) = Len(BuiltinNames) + 1

(***************************************************************************)
(* Properties of the compiler (specification SpecCompile).                 *)
(***************************************************************************)
Compiled == cout.fn # "none" /\ cout.r.ok

\* no Seq node of the tree has fewer than two elements
RECURSIVE NoShortSeq(_)
NoShortSeq(e) ==
    CASE e.k = "Fun" -> NoShortSeq(e.code.body)
      [] e.k = "App" -> \A i \in 1..Len(e.subexprs) : NoShortSeq(e.subexprs[i])
      [] e.k = "Seq" ->
            /\ Len(e.exprs) >= 2
            /\ \A i \in 1..Len(e.exprs) : NoShortSeq(e.exprs[i])
      [] e.k = "If" ->
            NoShortSeq(e.cond) /\ NoShortSeq(e.t_expr) /\ NoShortSeq(e.f_expr)
      [] e.k = "Def" \/ e.k = "Set" -> NoShortSeq(e.value)
      [] e.k = "Letrec" ->
            /\ NoShortSeq(e.body)
            /\ \A i \in 1..Len(e.exprs) : NoShortSeq(e.exprs[i])
      [] OTHER -> TRUE

\* the elements of a proper list
RECURSIVE Items(_)
Items(v) == IF v.t = "Cons" THEN <<v.car>> \o Items(v.cdr) ELSE <<>>

IsBegin(form) == form.t = "Cons" /\ form.car = Symbol("begin")

\* C6: sequence normalization.  No tree compile or compile_toplevel returns
\* has a Seq node of fewer than two elements; (begin) compiles to the
\* constant unspecified, (begin e) to what e compiles to, and
\* (begin e1 ... ek), k >= 2, to a Seq of the k compiled elements; seq of
\* one expression is that expression.
C6_SeqNormalized ==
    /\ Compiled => NoShortSeq(cout.r.val)
    /\ Compiled /\ IsBegin(cin) =>
          LET es == Items(cin.cdr) IN
          IF Len(es) = 0 THEN cout.r.val = Con(Unspecified)
          ELSE IF Len(es) = 1
          THEN cout.r = compile_expr(es[1], Place \o <<1>>)
          ELSE /\ cout.r.val.k = "Seq"
               /\ Len(cout.r.val.exprs) = Len(es)
               /\ \A i \in 1..Len(es) :
                     Ok(cout.r.val.exprs[i]) = compile_expr(es[i], Place \o <<i>>)
    /\ Compiled => seq(<<cout.r.val>>) = cout.r.val
    /\ seq(<<>>) = Con(Unspecified)

\* (begin (begin x)) has been compiled, to the variable x
C6_Witness ==
    /\ cin = BeginForm(<<BeginForm(<<Symbol("x")>>)>>)
    /\ Compiled
    /\ cout.r.val = Var("x")

\* (define pattern body...), the pattern a pair
IsPatternDefine(form) ==
    is_definition(form) /\ form.cdr.t = "Cons" /\ form.cdr.car.t = "Cons"

\* (define (name . formals) body...) as (define name (lambda formals body...))
Rewritten(form) ==
    List(<<Symbol("define"), form.cdr.car.car,
           Cons(Symbol("lambda"), Cons(form.cdr.car.cdr, form.cdr.cdr))>>)

\* rewritten until the pattern is no pair
RECURSIVE Uncurried(_)
Uncurried(form) ==
    IF IsPatternDefine(form) THEN Uncurried(Rewritten(form)) ELSE form

\* C7: definition desugaring.  (define (name . formals) body...) compiles
\* to what (define name (lambda formals body...)) compiles to, name, tree
\* or error, and to what the form rewritten until its pattern is no pair
\* compiles to; (define ((f a) a) body...) compiles to what
\* (define f (lambda (a) (lambda (a) body...))) does; and when the head of
\* the pattern is neither a symbol nor a pair the result is the error
\* "(define) with a non-symbol name".
C7_DefineDesugaring ==
    cout.fn = "compile_toplevel" /\ is_definition(cin) /\ cin.cdr.t = "Cons" =>
       /\ IsPatternDefine(cin) =>
             /\ cout.r = compile_toplevel(Rewritten(cin), Place)
             /\ cout.r = compile_toplevel(Uncurried(cin), Place)
       /\ cin.cdr.car = Cons(Cons(Symbol("f"), List(<<Symbol("a")>>)),
                             List(<<Symbol("a")>>)) =>
             cout.r = compile_toplevel(
                 List(<<Symbol("define"), Symbol("f"),
                        LambdaForm(List(<<Symbol("a")>>),
                            <<Cons(Symbol("lambda"),
                                   Cons(List(<<Symbol("a")>>), cin.cdr.cdr))>>)>>),
                 Place)
       /\ Uncurried(cin).cdr.car.t \notin {"Symbol", "Cons"} =>
             cout.r = Err("(define) with a non-symbol name")

\* (define ((f a) a) a b) has been compiled: f, a closure making a closure
\* whose body is the sequence of a and b
C7_Witness ==
    /\ cin = Cons(Symbol("define"),
                  Cons(Cons(Cons(Symbol("f"), List(<<Symbol("a")>>)),
                            List(<<Symbol("a")>>)),
                       List(<<Symbol("a"), Symbol("b")>>)))
    /\ cout.fn = "compile_toplevel"
    /\ cout.r.ok
    /\ cout.r.val.k = "Def"
    /\ cout.r.val.name = "f"
    /\ cout.r.val.value.k = "Fun"
    /\ cout.r.val.value.code.body.k = "Fun"
    /\ cout.r.val.value.code.body.code.body = ESeq(<<Var("a"), Var("b")>>)

(***************************************************************************)
(* Effect-only forms (specification Spec).                                 *)
(***************************************************************************)
IsSetForm(form) == form.t = "Cons" /\ form.car = Symbol("set!")

\* C12: the result of effect-only forms.  A Define or an Assign that
\* succeeds yields the unspecified value: the value the empty sequence
\* (begin) compiles to, and the one an if without else-branch goes to on
\* #f, which is not nil.
C12_EffectFormsYieldUnspecified ==
    /\ seq(<<>>) = Con(Unspecified)
    /\ Unspecified # Nil
    /\ \A j \in 1..Len(results) :
          (is_definition(forms[j]) \/ IsSetForm(forms[j])) /\ results[j].ok =>
             results[j] = Ok(seq(<<>>).val)

(***************************************************************************)
(* Bodies (specification SpecCompile).                                     *)
(***************************************************************************)
\* the forms of a body list, those of its (begin ...) forms in their place
RECURSIVE Spliced(_)
Spliced(v) ==
    IF v.t # "Cons" THEN <<>>
    ELSE (IF IsBegin(v.car) THEN Spliced(v.car.cdr) ELSE <<v.car>>) \o Spliced(v.cdr)

\* how many definitions the forms start with
Leading(fs) ==
    Greatest({d \in 0..Len(fs) : \A i \in 1..d : is_definition(fs[i])})

\* the body list of (lambda () body...) or (letrec* () body...)
BodyOf(form) == form.cdr.cdr

\* what the compiler made of the body
CompiledBody == IF cout.r.val.k = "Fun" THEN cout.r.val.code.body ELSE cout.r.val

\* the compiled forms are the Sequence of what the forms compile to
IsSeqOf(e, fs) ==
    IF Len(fs) = 1 THEN Ok(e) = compile_expr(fs[1], Place)
    ELSE /\ e.k = "Seq"
         /\ Len(e.exprs) = Len(fs)
         /\ \A i \in 1..Len(fs) : Ok(e.exprs[i]) = compile_expr(fs[i], Place)

\* C13: bodies.  The body of a lambda or a letrec*, its (begin ...) forms
\* spliced, compiles if and only if it is some definitions followed by at
\* least one form that is no definition and by no further definition; the
\* leading definitions become one Letrec of their names and values in
\* order, and there is no Letrec without them, around the Sequence of the
\* other forms; a body with nothing after its definitions, the empty body
\* and a body with a definition after an expression are errors.
C13_BodyCompilation ==
    cout.fn = "compile_expr" /\ cin \in BodyInputs =>
       LET fs == Spliced(BodyOf(cin))
           d == Leading(fs)
           others == SubSeq(fs, d + 1, Len(fs))
       IN /\ cout.r.ok <=>
                /\ others # <<>>
                /\ \A i \in 1..Len(others) : ~is_definition(others[i])
          /\ (d = Len(fs)) => cout.r = Err("expression required")
          /\ cout.r.ok /\ d = 0 =>
                /\ CompiledBody.k # "Letrec"
                /\ IsSeqOf(CompiledBody, others)
          /\ cout.r.ok /\ d > 0 =>
                /\ CompiledBody.k = "Letrec"
                /\ CompiledBody.names_init = [i \in 1..d |-> fs[i].cdr.car.s]
                /\ Len(CompiledBody.exprs) = d
                /\ \A i \in 1..d :
                      Ok(CompiledBody.exprs[i]) = compile_expr(fs[i].cdr.cdr.car, Place)
                /\ IsSeqOf(CompiledBody.body, others)

\* (lambda () (begin (define y 1)) x 1) has been compiled: a Letrec of y
\* around the sequence of x and 1
C13_Witness ==
    /\ cin = LambdaForm(Nil, <<BeginForm(<<DefineForm("y", VInt(1))>>),
                               Symbol("x"), VInt(1)>>)
    /\ cout.fn = "compile_expr"
    /\ cout.r.ok
    /\ CompiledBody.k = "Letrec"
    /\ CompiledBody.names_init = <<"y">>
    /\ CompiledBody.body = ESeq(<<Var("x"), Con(VInt(1))>>)

(***************************************************************************)
(* vm::eval as the crate exports it: pub fn eval(hs, expr, env) takes any  *)
(* EnvironmentRef, and a caller that holds a closure holds its environment *)
(* (Lambda(pair), pair.cdr()).  The driver defines closures at toplevel,   *)
(* then evaluates definitions against the default environment and against  *)
(* the environments of some of these closures, and calls at toplevel.      *)
(***************************************************************************)
\* mk makes closures in call frames: h and g are two of them, on the same
\* Code; ml makes them in the frame of a letrec*: l is one; mr takes a rest
\* name only: hr is made by a call of it
ApiSession ==
    [name |-> "api",
     arg |-> <<>>,
     setup |->
        <<DefineForm("mk", LambdaForm(List(<<Symbol("a")>>),
              <<LambdaForm(Nil, <<Symbol("z")>>)>>)),
          DefineForm("h", CallForm(Symbol("mk"), <<VInt(7)>>)),
          DefineForm("g", CallForm(Symbol("mk"), <<VInt(8)>>)),
          DefineForm("ml", LambdaForm(Nil,
              <<LetrecForm(<<<<"b", VInt(1)>>>>,
                    <<LambdaForm(Nil,
                          <<IfForm(Symbol("b"),
                                   BeginForm(<<SetForm("b", VInt(2)), Symbol("b")>>),
                                   VInt(0))>>)>>)>>)),
          DefineForm("l", CallForm(Symbol("ml"), <<>>)),
          CallForm(Symbol("l"), <<>>),
          DefineForm("mr", LambdaForm(Symbol("r"), <<LambdaForm(Nil, <<Symbol("r")>>)>>)),
          DefineForm("hr", CallForm(Symbol("mr"), <<VInt(1), VInt(2)>>))>>,
     calls |->
        {DefineForm("z", VInt(5)),
         DefineForm("a", VInt(6)),
         CallForm(Symbol("mk"), <<VInt(9)>>),
         CallForm(Symbol("mk"), <<VInt(9), VInt(10)>>),
         CallForm(Symbol("ml"), <<>>),
         CallForm(Symbol("mr"), <<VInt(1), VInt(2)>>),
         CallForm(Symbol("h"), <<>>),
         CallForm(Symbol("g"), <<>>)},
     targets |-> {"h", "l", "hr"}]

InitApi ==
    /\ prog = ApiSession
    /\ forms = <<>>
    /\ results = <<>>
    /\ vecs = default_env_vecs
    /\ envs = default_env_envs
    /\ stack = <<>>
    /\ ret = NoRet
    /\ cin = Nil
    /\ cout = NotRun
    /\ GcInit

\* the forms the driver may hand to vm::eval next, each with the
\* environment it hands over with it: the default one, and for a definition
\* those of the closures it has taken from the toplevel variables
\* prog.targets as well
ApiForms ==
    IF Len(forms) < Len(prog.setup)
    THEN {<<prog.setup[Len(forms) + 1], RootEnv>>}
    ELSE IF Len(forms) < Len(prog.setup) + MaxApiCalls
    THEN {<<f, RootEnv>> : f \in prog.calls}
         \cup {<<f, get(RootEnv, n).val.env>> :
                  f \in {c \in prog.calls : is_definition(c)}, n \in prog.targets}
    ELSE {}

\* pub fn eval(hs, expr, env), up to its call of eval_compiled
EvalApi ==
    /\ stack = <<>>
    /\ ret = NoRet
    /\ ~Panicked
    /\ \E call \in ApiForms :
          LET expr == compile_toplevel(call[1], <<Len(forms) + 1>>) IN
          /\ forms' = Append(forms, call[1])
          /\ IF expr.ok
             THEN /\ vecs' = alloc_vecs(vecs, expr.val)
                  /\ stack' = <<eval_compiled(expr.val, call[2])>>
                  /\ UNCHANGED results
             ELSE /\ results' = Append(results, expr)
                  /\ UNCHANGED <<vecs, stack>>
    /\ UNCHANGED <<prog, envs, ret, cin, cout, objects, handles, dropped>>

NextApi ==
    \/ EvalApi
    \/ EvalReturn
    \/ EvalCompiled
    \/ TrampolineEval
    \/ Apply
    \/ EvalCon
    \/ EvalVar
    \/ EvalFun
    \/ EvalApp
    \/ EvalSeq
    \/ EvalIf
    \/ EvalLetrec
    \/ EvalDef
    \/ EvalSet

SpecApi == InitApi /\ [][NextApi]_vars

(***************************************************************************)
(* Properties of vm::eval called against the frames a caller holds.        *)
(***************************************************************************)
\* the names a frame binds, as lookup sees them
NamesOf(e) == vecs[envs[e].names]

\* C11: evaluating a Define against frame F appends exactly one (name, value)
\* binding, at the end of F: F's names and values each grow by that one
\* entry, no other frame (parent or not) gains or loses a name or a value,
\* every binding there was keeps its index, name and value; a Define whose
\* value expression fails appends nothing
C11_DefineOnlyAppends ==
    [][Evaluating("Def") /\ top.pc = 1 =>
          IF ret.ok
          THEN /\ DOMAIN envs' = DOMAIN envs
               /\ envs'[top.env].values = Append(envs[top.env].values, ret.val)
               /\ vecs'[envs'[top.env].names] = Append(NamesOf(top.env), top.expr.name)
               /\ \A e \in DOMAIN envs \ {top.env} :
                     /\ envs'[e] = envs[e]
                     /\ vecs'[envs'[e].names] = NamesOf(e)
               /\ \A e \in DOMAIN envs :
                     /\ envs'[e].parent = envs[e].parent
                     /\ SubSeq(vecs'[envs'[e].names], 1, Len(NamesOf(e))) = NamesOf(e)
                     /\ SubSeq(envs'[e].values, 1, Len(envs[e].values)) = envs[e].values
          ELSE UNCHANGED <<vecs, envs>>]_vars

\* the name vectors of the Code objects and LetrecStar nodes built so far,
\* each with the names it was built with
Built ==
    UNION {Allocated(compile_toplevel(forms[j], <<j>>).val) :
              j \in {i \in 1..Len(forms) : compile_toplevel(forms[i], <<i>>).ok}}

\* C18: a Code object is immutable once constructed: whatever is evaluated,
\* a Define against a closure's call frame or a letrec* frame included, the
\* parameter list of every Code and the name list of every LetrecStar node
\* are the ones it was built with, and a call sees the parameter count the
\* Code was built with
C18_CodeImmutable ==
    /\ \A a \in Built : vecs[a[1]] = a[2]
    /\ Running("apply") /\ top.fval.t = "Lambda" =>
          Len(vecs[top.fval.code.params]) = Len(top.fval.code.params_init)

(***************************************************************************)
(* compile.rs, "Compiling to CPS".  InternedString::gensym is a counter    *)
(* of the process: cps takes the number of the next fresh symbol and hands *)
(* back, with the tree, the number after the last one it took.             *)
(* unimplemented!() panics.                                                *)
(***************************************************************************)
\* the n-th symbol of InternedString::gensym
gensym(n) == "gensym" \o ToString(n)

\* fn lambda: the parameter vector is allocated for this Code alone
lambda(k, body) == Fun(Code(<<0, k>>, <<gensym(k)>>, FALSE, body))

call(f, arg) == App(<<f, arg>>)

call_continuation(k, arg) == call(Var(gensym(k)), arg)

\* cps and its cases hand back the tree and the number of the next fresh
\* symbol, or the panic of unimplemented!()
RECURSIVE cps(_, _)

cps_var(var, n) ==
    LET k == n IN
    Ok([e |-> lambda(k, call_continuation(k, Var(var))), n |-> n + 1])

cps_quote(quoted, n) ==
    LET k == n IN
    Ok([e |-> lambda(k, call_continuation(k, Con(quoted))), n |-> n + 1])

cps_set(setref, n) ==
    LET k == n
        value == n + 1
    IN
    Try(cps(setref.value, n + 2), LAMBDA v :
        Ok([e |-> lambda(k, call(v.e,
                      lambda(value,
                          call_continuation(k, Set(setref.name, Var(gensym(value))))))),
            n |-> v.n]))

cps_def(def, n) == Panic("not yet implemented")

cps_if(ifref, n) ==
    LET k == n
        condition == n + 1
        consequent == n + 2
        alternative == n + 3
    IN
    Try(cps(ifref.cond, n + 4), LAMBDA c :
    Try(cps(ifref.t_expr, c.n), LAMBDA t :
    Try(cps(ifref.t_expr, t.n), LAMBDA f :
        Ok([e |-> lambda(k, call(c.e,
                      lambda(condition,
                          If(Var(gensym(condition)),
                             call(t.e, lambda(consequent,
                                      call_continuation(k, Var(gensym(consequent))))),
                             call(f.e, lambda(alternative,
                                      call_continuation(k, Var(gensym(alternative))))))))),
            n |-> f.n]))))

\* the closure of the fold of cps_seq
cps_seq_step(cont, expr, n) ==
    LET k == n
        void == n + 1
        a == n + 2
        b == n + 3
    IN
    Try(cps(expr, n + 4), LAMBDA x :
        Ok([e |-> lambda(k, call(cont,
                      lambda(b, call(x.e,
                          lambda(a,
                              call_continuation(k,
                                  call(call(lambda(void, Var(gensym(b))), Var(gensym(a))),
                                       Con(Nil)))))))),
            n |-> x.n]))

\* exprs.into_iter().rev().fold(acc, ...), from the i-th expression down
RECURSIVE cps_seq_fold(_, _, _)
cps_seq_fold(exprs, i, acc) ==
    IF i = 0 THEN acc
    ELSE Try(acc, LAMBDA cont :
             cps_seq_fold(exprs, i - 1, cps_seq_step(cont.e, exprs[i], cont.n)))

cps_seq(exprs, n) == cps_seq_fold(exprs, Len(exprs), cps(Con(Nil), n))

cps_fun(code, n) == Panic("not yet implemented")

cps_app(subexprs, n) == Panic("not yet implemented")

cps_letrec(letrecref, n) == Panic("not yet implemented")

cps(expr, n) ==
    CASE expr.k = "Var" -> cps_var(expr.name, n)
      [] expr.k = "Con" -> cps_quote(expr.val, n)
      [] expr.k = "Set" -> cps_set(expr, n)
      [] expr.k = "Def" -> cps_def(expr, n)
      [] expr.k = "If" -> cps_if(expr, n)
      [] expr.k = "Seq" -> cps_seq(expr.exprs, n)
      [] expr.k = "Fun" -> cps_fun(expr.code, n)
      [] expr.k = "App" -> cps_app(expr.subexprs, n)
      [] expr.k = "Letrec" -> cps_letrec(expr, n)

(***************************************************************************)
(* The CPS transform at work.  A caller defines some variables, evaluates  *)
(* a compiled tree directly, defines the variables anew (the new bindings  *)
(* shadow the old ones, which keep what the direct evaluation left), calls *)
(* cps on the tree and evaluates the application of the result to a        *)
(* continuation.  The continuation keeps what it was called with in `kval` *)
(* and whether it was called in `once` and `twice`.                        *)
(***************************************************************************)
CpsSetup ==
    <<Def("x", Con(VInt(7))),
      Def("y", Con(VInt(8))),
      Def("once", Con(Bool(FALSE))),
      Def("twice", Con(Bool(FALSE))),
      Def("kval", Con(Symbol("none")))>>

\* (lambda (v) (set! twice once) (set! once #t) (set! kval v) v)
Continuation ==
    Fun(Code(<<0, 0>>, <<"v">>, FALSE,
             ESeq(<<Set("twice", Var("once")),
                    Set("once", Con(Bool(TRUE))),
                    Set("kval", Var("v")),
                    Var("v")>>)))

\* the trees handed to cps: variables and constants, assignments of them,
\* ifs, sequences of up to MaxSeq expressions, assignments of ifs, and the
\* kinds cps has no case for yet, alone and inside a supported kind
CpsInputs ==
    LET atoms == {Var("x"), Var("y"), Con(VInt(1)), Con(Bool(FALSE))}
        sets == {Set(n, a) : n \in {"x", "y"}, a \in atoms}
        ifs == {If(c, t, f) : c \in {Con(Bool(FALSE)), Con(VInt(1)), Var("x")},
                              t \in {Con(VInt(1)), Set("x", Con(VInt(3)))},
                              f \in {Con(VInt(2)), Set("y", Con(VInt(4)))}}
        items == {Set("x", Con(VInt(5))), Set("y", Var("x")), Var("x"), Con(VInt(1))}
        seqs == {ESeq(es) : es \in SeqsUpTo(items, MaxSeq)}
        nested == {Set("y", e) : e \in ifs}
                  \cup {If(Set("x", Con(Bool(FALSE))), Var("x"), Var("y"))}
        fun == Fun(Code(<<1>>, <<"a">>, FALSE, Var("a")))
        app == App(<<fun, Con(VInt(1))>>)
        let == Letrec(<<2>>, <<"b">>, <<Con(VInt(1))>>, Var("b"))
        unsupported == {fun, app, let, Def("z", Con(VInt(1))),
                        Set("x", app), If(Var("x"), fun, let), ESeq(<<Var("x"), app>>)}
    IN atoms \cup sets \cup ifs \cup seqs \cup nested \cup unsupported

InitCps ==
    /\ cin \in CpsInputs
    /\ prog = [name |-> "cps", script |-> CpsSetup \o <<cin>> \o CpsSetup]
    /\ forms = <<>>
    /\ results = <<>>
    /\ vecs = default_env_vecs
    /\ envs = default_env_envs
    /\ stack = <<>>
    /\ ret = NoRet
    /\ cout = NotRun
    /\ GcInit

\* eval_compiled of the next tree of the script, against the default
\* environment
EvalDirect ==
    /\ stack = <<>>
    /\ ret = NoRet
    /\ ~Panicked
    /\ Len(forms) < Len(prog.script)
    /\ LET expr == prog.script[Len(forms) + 1] IN
       /\ forms' = Append(forms, expr)
       /\ vecs' = alloc_vecs(vecs, expr)
       /\ stack' = <<eval_compiled(expr, RootEnv)>>
    /\ UNCHANGED <<prog, results, envs, ret, cin, cout, objects, handles, dropped>>

\* pub fn cps, called on the tree; a panic ends the process
Cps ==
    /\ stack = <<>>
    /\ ret = NoRet
    /\ Len(results) = Len(prog.script)
    /\ cout = NotRun
    /\ LET r == cps(cin, 1) IN
       cout' = IF r.ok THEN Ok(r.val.e) ELSE r
    /\ UNCHANGED <<prog, forms, results, vecs, envs, stack, ret, cin, objects, handles, dropped>>

\* eval_compiled of the application of the CPS tree to the continuation
EvalCps ==
    /\ stack = <<>>
    /\ ret = NoRet
    /\ ~Panicked
    /\ Len(forms) = Len(prog.script)
    /\ cout # NotRun
    /\ cout.ok
    /\ LET expr == call(cout.val, Continuation) IN
       /\ forms' = Append(forms, expr)
       /\ vecs' = alloc_vecs(vecs, expr)
       /\ stack' = <<eval_compiled(expr, RootEnv)>>
    /\ UNCHANGED <<prog, results, envs, ret, cin, cout, objects, handles, dropped>>

NextCps ==
    \/ EvalDirect
    \/ Cps
    \/ EvalCps
    \/ EvalReturn
    \/ EvalCompiled
    \/ TrampolineEval
    \/ Apply
    \/ EvalCon
    \/ EvalVar
    \/ EvalFun
    \/ EvalApp
    \/ EvalSeq
    \/ EvalIf
    \/ EvalLetrec
    \/ EvalDef
    \/ EvalSet

SpecCps == InitCps /\ [][NextCps]_vars

\* the run of the script has come to its end
CpsDone == Len(results) = Len(prog.script) + 1

\* the result of the direct evaluation and of the evaluation in CPS
DirectResult == results[Len(CpsSetup) + 1]

CpsResult == results[Len(prog.script) + 1]

\* a variable of the setup after the direct evaluation (its first binding)
\* and after the evaluation in CPS (its newest binding)
DirectVar(name) ==
    envs[RootEnv].values[Len(BuiltinNames)
                         + scan([i \in 1..Len(CpsSetup) |-> CpsSetup[i].name], name)]

CpsVar(name) == get(RootEnv, name).val

(***************************************************************************)
(* Properties of the CPS transform.                                        *)
(***************************************************************************)
\* C14: on a Lambda, an Apply or a LetrecStar the CPS transform hands back
\* an explicit error value: it does not panic, and it does not hand back a
\* tree
C14_UnsupportedIsAnError ==
    cout # NotRun /\ cin.k \in {"Fun", "App", "Letrec"} =>
       /\ ~cout.ok
       /\ "panic" \notin DOMAIN cout
       /\ "err" \in DOMAIN cout

\* the evaluation in CPS has come to what the direct evaluation came to: the
\* same result, handed to the continuation, and the same x and y
SameAsDirect ==
    /\ CpsResult = DirectResult
    /\ DirectResult.ok => CpsVar("kval") = DirectResult.val
    /\ CpsVar("x") = DirectVar("x")
    /\ CpsVar("y") = DirectVar("y")

\* C15: the CPS of (if c t f) has, in its false branch, the CPS of f applied
\* to a continuation that calls k: when c is false the continuation gets the
\* value of f and the effects of f happen, as in the direct evaluation
C15_IfAlternativeIsCpsOfF ==
    /\ cin.k = "If" /\ cout # NotRun /\ cout.ok =>
          LET alt == cout.val.code.body.subexprs[2].code.body.f_expr.subexprs[1] IN
          alt = cps(cin.f_expr, alt.code.params[2]).val.e
    /\ cin.k = "If" /\ CpsDone => SameAsDirect

\* the continuation has been called exactly once
CalledOnce == CpsVar("once") = Bool(TRUE) /\ CpsVar("twice") = Bool(FALSE)

\* C16: the CPS of a sequence e1 ... en, applied to a continuation k, has
\* the effects of e1 ... en in this order (x and y end as in the direct
\* evaluation, which goes from left to right), calls k exactly once, with
\* the value of en, and applies nothing that is not a procedure
C16_SeqInOrder ==
    cin.k = "Seq" /\ cin.exprs # <<>> /\ CpsDone =>
       /\ SameAsDirect
       /\ CalledOnce
       /\ CpsResult # Err("apply: not a function")

\* a Lambda of one parameter and no rest parameter, the name fresh
IsContinuationLambda(e) ==
    /\ e.k = "Fun"
    /\ Len(e.code.params_init) = 1
    /\ ~e.code.rest
    /\ e.code.params_init[1] \notin
          {"x", "y", "v"} \cup {CpsSetup[i].name : i \in 1..Len(CpsSetup)}
          \cup {BuiltinNames[i] : i \in 1..Len(BuiltinNames)}

\* C17: the CPS of a VarRef or Const e is a Lambda of one fresh parameter k
\* and no rest parameter whose body is (k e); the CPS of an Assign x v runs
\* the CPS of v with a continuation that assigns x and then calls k, exactly
\* once, with the unspecified value; applied to a continuation, the CPS of
\* each of the three kinds comes to the value and to the variables of the
\* direct evaluation
C17_CpsOfAtomsAndAssign ==
    /\ cin.k \in {"Var", "Con"} /\ cout # NotRun =>
          /\ cout.ok
          /\ IsContinuationLambda(cout.val)
          /\ cout.val.code.body = App(<<Var(cout.val.code.params_init[1]), cin>>)
    /\ cin.k = "Set" /\ cout # NotRun /\ cout.ok =>
          /\ IsContinuationLambda(cout.val)
          /\ LET body == cout.val.code.body
                 k == cout.val.code.params_init[1]
             IN /\ body.k = "App"
                /\ Len(body.subexprs) = 2
                /\ body.subexprs[1] = cps(cin.value, body.subexprs[1].code.params[2]).val.e
                /\ IsContinuationLambda(body.subexprs[2])
                /\ body.subexprs[2].code.params_init[1] # k
                /\ body.subexprs[2].code.body =
                      App(<<Var(k),
                            Set(cin.name, Var(body.subexprs[2].code.params_init[1]))>>)
    /\ cin.k \in {"Var", "Con", "Set"} /\ CpsDone =>
          /\ SameAsDirect
          /\ CalledOnce
          /\ cin.k = "Set" /\ CpsResult.ok => CpsVar("kval") = Unspecified

(***************************************************************************)
(* Properties of apply's arithmetic and assertion.                         *)
(***************************************************************************)
\* the Code records of a tree
RECURSIVE CodesOf(_)
CodesOf(e) ==
    CASE e.k = "Fun" -> {e.code} \cup CodesOf(e.code.body)
      [] e.k = "App" -> UNION {CodesOf(e.subexprs[i]) : i \in 1..Len(e.subexprs)}
      [] e.k = "Seq" -> UNION {CodesOf(e.exprs[i]) : i \in 1..Len(e.exprs)}
      [] e.k = "If" -> CodesOf(e.cond) \cup CodesOf(e.t_expr) \cup CodesOf(e.f_expr)
      [] e.k = "Def" \/ e.k = "Set" -> CodesOf(e.value)
      [] e.k = "Letrec" ->
            CodesOf(e.body) \cup UNION {CodesOf(e.exprs[i]) : i \in 1..Len(e.exprs)}
      [] OTHER -> {}

\* a Code with the rest flag has a parameter name for the rest
RestIsNamed(r) ==
    r.ok => \A code \in CodesOf(r.val) : code.rest => code.params_init # <<>>

\* C20: apply never comes to its arithmetic underflow or to its assertion.
\* Every Code the compiler or the CPS transform builds has, with the rest
\* flag, at least one parameter name, and so has every Code that is applied,
\* whatever was defined against the frames sharing its parameter vector;
\* apply never panics on the subtraction or on assert_eq!, and the frame of
\* every call in progress has as many values as names
C20_ApplyAssertionsHold ==
    /\ forms = <<>> =>
          /\ \A c \in CompileInputs : RestIsNamed(compile_toplevel(c, Place))
          /\ \A c \in CpsInputs : RestIsNamed(Try(cps(c, 1), LAMBDA v : Ok(v.e)))
    /\ Running("apply") /\ top.fval.t = "Lambda" /\ top.fval.code.rest =>
          /\ top.fval.code.params_init # <<>>
          /\ vecs[top.fval.code.params] # <<>>
    /\ ret \notin {Panic("attempt to subtract with overflow"), Panic("assertion failed")}
    /\ \A i \in 1..Len(stack) :
          stack[i].fn = "apply" /\ stack[i].pc = 1 =>
             Len(envs[stack[i].env].values) = Len(NamesOf(stack[i].env))

\* a call of the closure of (lambda r ...) with two arguments, after a
\* Define against a frame of its Code has made its parameters (r z): the new
\* frame has two names and two values, 1 and the list (2)
C20_Witness ==
    /\ Running("eval_to_tail_call")
    /\ Len(stack) > 1
    /\ stack[Len(stack) - 1].fn = "apply"
    /\ stack[Len(stack) - 1].fval.code.rest
    /\ NamesOf(top.env) = <<"r", "z">>
    /\ envs[top.env].values = <<VInt(1), List(<<VInt(2)>>)>>

(***************************************************************************)
(* The mutator of tests/drop.rs, and others like it, on the managed heap:  *)
(* it allocates Droppers into its handle variables (an assignment drops    *)
(* the handle the variable held), sets the field of one to another, drops  *)
(* handles and forces collections.                                         *)
(***************************************************************************)
\* the objects the live handles refer to
Roots == {handles[h] : h \in {g \in DOMAIN handles : handles[g] # 0}}

\* tracing of handles only: the fields of the objects are not followed
Marked_roots_only(from) == from

\* the objects reachable from the objects `from` through the fields
RECURSIVE Marked(_)
Marked(from) ==
    IF {objects[i].ignore.ref : i \in {j \in from : objects[j].ignore.tag = "Another"}}
          \subseteq from
    THEN from
    ELSE Marked(from \cup {objects[i].ignore.ref :
                              i \in {j \in from : objects[j].ignore.tag = "Another"}})

InitGc ==
    /\ prog = [name |-> "gc"]
    /\ forms = <<>>
    /\ results = <<>>
    /\ vecs = default_env_vecs
    /\ envs = default_env_envs
    /\ stack = <<>>
    /\ ret = NoRet
    /\ cin = Nil
    /\ cout = NotRun
    /\ GcInit

\* r = hs.alloc(Dropper { which, ignore }), a Dropper being a record of
\* these two fields
GcAlloc ==
    /\ Len(dropped) < MaxObjects
    /\ \E h \in DOMAIN handles :
       \E ignore \in {Nothing} \cup {Another(i) : i \in Roots} :
          /\ objects' = (Len(dropped) + 1 :> [which |-> Len(dropped) + 1, ignore |-> ignore])
                         @@ objects
          /\ handles' = [handles EXCEPT ![h] = Len(dropped) + 1]
          /\ dropped' = Append(dropped, 0)
    /\ UNCHANGED <<prog, forms, results, vecs, envs, stack, ret, cin, cout>>

\* r.set_ignore(Another(s)), r.set_ignore(Nothing)
GcSetIgnore ==
    /\ \E i \in Roots :
       \E ignore \in {Nothing} \cup {Another(j) : j \in Roots} :
          objects' = [objects EXCEPT ![i].ignore = ignore]
    /\ UNCHANGED <<handles, dropped>>
    /\ UNCHANGED <<prog, forms, results, vecs, envs, stack, ret, cin, cout>>

\* std::mem::drop(r)
GcDropHandle ==
    /\ \E h \in DOMAIN handles :
          /\ handles[h] # 0
          /\ handles' = [handles EXCEPT ![h] = 0]
    /\ UNCHANGED <<objects, dropped>>
    /\ UNCHANGED <<prog, forms, results, vecs, envs, stack, ret, cin, cout>>

\* hs.force_gc(): what is not marked is destroyed, its destructor runs
ForceGc ==
    /\ objects' = [i \in Marked(Roots) |-> objects[i]]
    /\ dropped' = [i \in DOMAIN dropped |->
                      IF i \in DOMAIN objects \ Marked(Roots)
                      THEN dropped[i] + 1 ELSE dropped[i]]
    /\ UNCHANGED handles
    /\ UNCHANGED <<prog, forms, results, vecs, envs, stack, ret, cin, cout>>

NextGc ==
    \/ GcAlloc
    \/ GcSetIgnore
    \/ GcDropHandle
    \/ ForceGc

SpecGc == InitGc /\ [][NextGc]_vars

(***************************************************************************)
(* Properties of the collection.                                           *)
(***************************************************************************)
\* the objects allocated so far that some chain of fields starting at a
\* live handle leads to
RECURSIVE Reachable(_)
Reachable(from) ==
    IF \A i \in from : i \in DOMAIN objects /\ objects[i].ignore.tag = "Another" =>
          objects[i].ignore.ref \in from
    THEN from
    ELSE Reachable(from \cup {objects[i].ignore.ref :
                                 i \in {j \in from : j \in DOMAIN objects
                                                     /\ objects[j].ignore.tag = "Another"}})

\* static DROP_COUNT
RECURSIVE DROP_COUNT(_)
DROP_COUNT(n) == IF n = 0 THEN 0 ELSE dropped[n] + DROP_COUNT(n - 1)

\* C19: a forced collection reclaims exactly the unreachable objects.  No
\* object reachable from a live handle is destroyed, in any state; no
\* destructor runs twice; after force_gc the destructor of every object
\* that is not reachable from a live handle has run exactly once; and in a
\* step that is not a collection no destructor runs.  So an object whose
\* last handle was dropped is destroyed by the next forced collection.
C19_CollectionIsExact ==
    /\ [](\A i \in Reachable(Roots) : i \in DOMAIN objects /\ dropped[i] = 0)
    /\ [](\A i \in DOMAIN dropped : dropped[i] <= 1)
    /\ [][ForceGc =>
             \A i \in DOMAIN dropped' :
                IF i \in Reachable(Roots)' THEN dropped'[i] = 0 ELSE dropped'[i] = 1]_vars
    /\ [][~ForceGc =>
             \A i \in DOMAIN dropped : dropped'[i] = dropped[i]]_vars

\* as in tests/drop.rs: every object was allocated into r; a collection has
\* destroyed all but the last one, once each; the last one, whose handle is
\* live, is not destroyed
C19_Witness ==
    /\ Len(dropped) = MaxObjects
    /\ handles["r"] = MaxObjects
    /\ Roots = {MaxObjects}
    /\ \A i \in DOMAIN objects : objects[i].ignore = Nothing
    /\ DROP_COUNT(Len(dropped)) = MaxObjects - 1
    /\ dropped[MaxObjects] = 0

====
